---- MODULE Spec2Model ----
(***************************************************************************)
(* A model of services/apiService.ts: the field resolver, the text         *)
(* normalizer, the response unwrapper, the remote fetcher's race and the   *)
(* reference data store with the orchestrators that use it; and of the     *)
(* detail cache of SiteDetailContent in App.tsx.                           *)
(*                                                                         *)
(* JavaScript values are tagged records; a JavaScript string is a sequence *)
(* of one-character strings, so that length, search and replacement are    *)
(* computed and not assumed.                                               *)
(***************************************************************************)
EXTENDS Integers, Sequences, FiniteSets, TLC

VARIABLES
    fnArg,      \* pure-function harness: the argument(s) of the call
    fnRet,      \* pure-function harness: the value returned
    fnPc,       \* pure-function harness: "ready" | "once" | "twice" | "done" | "off"
    att,        \* fetchFromApi: the HTTP attempt of each strategy
    race,       \* fetchFromApi: the promise promiseAny returns
    apiRet,     \* fetchFromApi: the value the call resolved to
    firstOk,    \* history: the first attempt to fulfil, in completion order
    refData,    \* the reference data store
    globalSiteCache,
    globalPersonCache,
    calls,      \* the invocations of the orchestrators that are under way
    detailCache \* App.tsx: the SiteDetail that loadDetails stored for each site id

vars == <<fnArg, fnRet, fnPc, att, race, apiRet, firstOk,
          refData, globalSiteCache, globalPersonCache, calls, detailCache>>
raceVars == <<att, race, apiRet, firstOk>>
pureVars == <<fnArg, fnRet, fnPc>>
storeVars == <<refData, globalSiteCache, globalPersonCache, calls, detailCache>>

(***************************************************************************)
(* Bounds of the model.                                                    *)
(***************************************************************************)
MaxTextLen == 6
MaxKeys == 2
MaxListLen == 2
MaxCalls == 2
MaxSites == 3

(***************************************************************************)
(* JavaScript values.                                                      *)
(***************************************************************************)
Undefined == [t |-> "undefined"]
Null == [t |-> "null"]
Str(s) == [t |-> "string", v |-> s]
Num(n) == [t |-> "number", v |-> n]
Arr(s) == [t |-> "array", v |-> s]
Obj(f) == [t |-> "object", v |-> f]
NaN == [t |-> "nan"]
EmptyStr == Str(<<>>)
EmptyObj == Obj(<<>>)

IsStr(x) == x.t = "string"
IsArr(x) == x.t = "array"
IsObj(x) == x.t = "object"

\* ToBoolean: undefined, null, '', 0 and NaN are falsy; arrays and objects are
\* truthy
Truthy(x) == x \notin {Undefined, Null, EmptyStr, Num(0), NaN}

\* obj[key]: an own property of an object, undefined otherwise (also on
\* strings, numbers and arrays, whose named properties the model never sets)
Get(x, key) ==
    IF IsObj(x) /\ key \in DOMAIN x.v THEN x.v[key] ELSE Undefined

Keys(x) == IF IsObj(x) THEN DOMAIN x.v ELSE {}

(***************************************************************************)
(* getProp (apiService.ts 7-13)                                            *)
(***************************************************************************)
\* the test of line 10: obj[key] !== undefined && !== null && !== ''
PropPresent_Truthy(val) == Truthy(val)
PropPresent(val) == val # Undefined /\ val # Null /\ val # EmptyStr

RECURSIVE getPropFrom(_, _, _)
getPropFrom(obj, keys, i) ==
    IF i > Len(keys) THEN Undefined
    ELSE IF PropPresent(Get(obj, keys[i])) THEN Get(obj, keys[i])
    ELSE getPropFrom(obj, keys, i + 1)

getProp(obj, keys) ==
    IF ~Truthy(obj) THEN Undefined ELSE getPropFrom(obj, keys, 1)

(***************************************************************************)
(* cleanText (apiService.ts 47-55)                                         *)
(***************************************************************************)
Digits == <<"0", "1", "2", "3", "4", "5", "6", "7", "8", "9">>
IsDigit(c) == \E d \in 1..10 : Digits[d] = c
IsWs(c) == c \in {" ", "\t", "\n"}
IsCiteSep(c) == IsWs(c) \/ c \in {",", ";", "-"}

\* decimal digits of a natural number (String(n) for the numbers of the model)
RECURSIVE NatChars(_)
NatChars(n) ==
    IF n < 10 THEN <<Digits[n + 1]>> ELSE NatChars(n \div 10) \o <<Digits[(n % 10) + 1]>>

\* String(x); an array is its elements joined by commas, null and undefined
\* elements written as nothing
RECURSIVE ToStr(_)
RECURSIVE JoinElems(_, _)
ToStr(x) ==
    CASE x.t = "string" -> x.v
      [] x.t = "number" -> NatChars(x.v)
      [] x.t = "null" -> <<"n", "u", "l", "l">>
      [] x.t = "undefined" -> <<"u", "n", "d", "e", "f", "i", "n", "e", "d">>
      [] x.t = "array" -> JoinElems(x.v, 1)
      [] x.t = "nan" -> <<"N", "a", "N">>
      [] OTHER -> <<"[", "o", "b", "j", "e", "c", "t", " ", "O", "b", "j", "e", "c", "t", "]">>

JoinElems(a, i) ==
    IF i > Len(a) THEN <<>>
    ELSE (IF i > 1 THEN <<",">> ELSE <<>>)
         \o (IF a[i].t \in {"null", "undefined"} THEN <<>> ELSE ToStr(a[i]))
         \o JoinElems(a, i + 1)

\* positions reachable from P by consuming zero or more characters of a class
RECURSIVE StarWs(_, _)
StarWs(s, P) ==
    LET Q == P \cup {p + 1 : p \in {q \in P : q <= Len(s) /\ IsWs(s[q])}}
    IN IF Q = P THEN P ELSE StarWs(s, Q)

RECURSIVE StarDigit(_, _)
StarDigit(s, P) ==
    LET Q == P \cup {p + 1 : p \in {q \in P : q <= Len(s) /\ IsDigit(s[q])}}
    IN IF Q = P THEN P ELSE StarDigit(s, Q)

RECURSIVE StarCiteSep(_, _)
StarCiteSep(s, P) ==
    LET Q == P \cup {p + 1 : p \in {q \in P : q <= Len(s) /\ IsCiteSep(s[q])}}
    IN IF Q = P THEN P ELSE StarCiteSep(s, Q)

\* \d+ from the positions P
PlusDigit(s, P) ==
    StarDigit(s, {p + 1 : p \in {q \in P : q <= Len(s) /\ IsDigit(s[q])}})

\* (?:[\s,;-]*\d+)* from the positions P
RECURSIVE StarCiteGroup(_, _)
StarCiteGroup(s, P) ==
    LET Q == P \cup PlusDigit(s, StarCiteSep(s, P))
    IN IF Q = P THEN P ELSE StarCiteGroup(s, Q)

\* the positions just after a match of /\[\s*\d+(?:[\s,;-]*\d+)*\s*\]/ that
\* starts at position i (empty when there is none)
CiteEnds(s, i) ==
    IF i > Len(s) \/ s[i] # "[" THEN {}
    ELSE LET body == StarWs(s, StarCiteGroup(s, PlusDigit(s, StarWs(s, {i + 1}))))
         IN {p + 1 : p \in {q \in body : q <= Len(s) /\ s[q] = "]"}}

\* a match cannot contain "]" before its last character, so it ends at most
\* at one position: the choice below is the match the engine finds
CiteEnd(s, i) == CHOOSE e \in CiteEnds(s, i) : \A f \in CiteEnds(s, i) : f <= e

\* .replace(/\[...\]/g, ''): leftmost matches, left to right, not overlapping
RECURSIVE StripCitations(_, _)
StripCitations(s, i) ==
    IF i > Len(s) THEN <<>>
    ELSE IF CiteEnds(s, i) # {} THEN StripCitations(s, CiteEnd(s, i))
    ELSE <<s[i]>> \o StripCitations(s, i + 1)

\* .replace(/\s+/g, ' ')
RECURSIVE CollapseWs(_, _)
CollapseWs(s, i) ==
    IF i > Len(s) THEN <<>>
    ELSE IF IsWs(s[i])
         THEN IF i > 1 /\ IsWs(s[i - 1]) THEN CollapseWs(s, i + 1)
              ELSE <<" ">> \o CollapseWs(s, i + 1)
    ELSE <<s[i]>> \o CollapseWs(s, i + 1)

\* .trim()
RECURSIVE TrimLeft(_)
TrimLeft(s) == IF s # <<>> /\ IsWs(Head(s)) THEN TrimLeft(Tail(s)) ELSE s

RECURSIVE TrimRight(_)
TrimRight(s) ==
    IF s # <<>> /\ IsWs(s[Len(s)]) THEN TrimRight(SubSeq(s, 1, Len(s) - 1)) ELSE s

Trim(s) == CHOOSE r \in {TrimRight(t) : t \in {TrimLeft(s)}} : TRUE

\* each replace works on the value the one before it returned
cleanText(text) ==
    IF ~Truthy(text) THEN <<>>
    ELSE CHOOSE r \in
            {Trim(collapsed) : collapsed \in
                {CollapseWs(stripped, 1) : stripped \in
                    {StripCitations(str, 1) : str \in {ToStr(text)}}}} : TRUE

(***************************************************************************)
(* JSON.stringify and JSON.parse on the values of the model: null, natural *)
(* numbers, strings without quotes or escapes, arrays and objects.         *)
(***************************************************************************)
\* the characters of the property names that occur in JSON texts
KeyText ==
    [id |-> <<"i", "d">>,
     data |-> <<"d", "a", "t", "a">>,
     contents |-> <<"c", "o", "n", "t", "e", "n", "t", "s">>]

JsonKeys == DOMAIN KeyText

\* a set as a sequence (the order in which an object's properties are written)
RECURSIVE SetToSeq(_)
SetToSeq(S) ==
    IF S = {} THEN <<>>
    ELSE LET x == CHOOSE y \in S : TRUE IN <<x>> \o SetToSeq(S \ {x})

\* the characters of a string literal: a quote and a backslash are escaped
RECURSIVE EscapeChars(_)
EscapeChars(cs) ==
    IF cs = <<>> THEN <<>>
    ELSE (CASE Head(cs) = "\"" -> <<"\\", "\"">>
            [] Head(cs) = "\\" -> <<"\\", "\\">>
            [] Head(cs) = "\n" -> <<"\\", "n">>
            [] Head(cs) = "\t" -> <<"\\", "t">>
            [] OTHER -> <<Head(cs)>>) \o EscapeChars(Tail(cs))

RECURSIVE JsonStringify(_)
RECURSIVE StringifyElems(_, _)
RECURSIVE StringifyMembers(_, _, _, _)
JsonStringify(x) ==
    CASE x.t = "null" -> <<"n", "u", "l", "l">>
      [] x.t = "number" -> NatChars(x.v)
      [] x.t = "string" -> <<"\"">> \o EscapeChars(x.v) \o <<"\"">>
      [] x.t = "array" -> <<"[">> \o StringifyElems(x.v, 1) \o <<"]">>
      [] x.t = "object" ->
            <<"{">> \o StringifyMembers(x.v, SetToSeq(DOMAIN x.v), 1, TRUE) \o <<"}">>
      [] OTHER -> <<"n", "u", "l", "l">>

\* an undefined element of an array is written as null
StringifyElems(a, i) ==
    IF i > Len(a) THEN <<>>
    ELSE (IF i > 1 THEN <<",">> ELSE <<>>) \o JsonStringify(a[i]) \o StringifyElems(a, i + 1)

\* a property whose value is undefined is left out
StringifyMembers(f, ks, i, first) ==
    IF i > Len(ks) THEN <<>>
    ELSE IF f[ks[i]] = Undefined THEN StringifyMembers(f, ks, i + 1, first)
    ELSE (IF first THEN <<>> ELSE <<",">>)
         \o <<"\"">> \o KeyText[ks[i]] \o <<"\"", ":">>
         \o JsonStringify(f[ks[i]]) \o StringifyMembers(f, ks, i + 1, FALSE)

\* The parser: each step returns [ok, val, pos], pos the next unread position.
ParseFail == [ok |-> FALSE, val |-> Undefined, pos |-> 0]
ParseOk(v, p) == [ok |-> TRUE, val |-> v, pos |-> p]

RECURSIVE SkipWs(_, _)
SkipWs(s, i) == IF i <= Len(s) /\ IsWs(s[i]) THEN SkipWs(s, i + 1) ELSE i

At(s, i) == IF i >= 1 /\ i <= Len(s) THEN s[i] ELSE "EOF"

DigitValue(c) == (CHOOSE d \in 1..10 : Digits[d] = c) - 1

\* the digits from position i on: [val, pos]
RECURSIVE ParseDigits(_, _, _)
ParseDigits(s, i, acc) ==
    IF IsDigit(At(s, i)) THEN ParseDigits(s, i + 1, 10 * acc + DigitValue(s[i]))
    ELSE [val |-> acc, pos |-> i]

\* the characters of a string literal from position i to its closing quote
RECURSIVE ParseChars(_, _, _)
ParseChars(s, i, acc) ==
    IF i > Len(s) \/ s[i] = "\n" \/ s[i] = "\t" THEN ParseFail
    ELSE IF s[i] = "\"" THEN ParseOk(Str(acc), i + 1)
    ELSE IF s[i] = "\\"
         THEN CASE At(s, i + 1) = "\"" -> ParseChars(s, i + 2, Append(acc, "\""))
                [] At(s, i + 1) = "\\" -> ParseChars(s, i + 2, Append(acc, "\\"))
                [] At(s, i + 1) = "n" -> ParseChars(s, i + 2, Append(acc, "\n"))
                [] At(s, i + 1) = "t" -> ParseChars(s, i + 2, Append(acc, "\t"))
                [] OTHER -> ParseFail
    ELSE ParseChars(s, i + 1, Append(acc, s[i]))

\* the property name a key text stands for ("?" for a name outside JsonKeys)
KeyOfText(cs) ==
    IF \E k \in JsonKeys : KeyText[k] = cs
    THEN CHOOSE k \in JsonKeys : KeyText[k] = cs
    ELSE "?"

RECURSIVE ParseValue(_, _)
RECURSIVE ParseElems(_, _, _)
RECURSIVE ParseMembers(_, _, _)
ParseValue(s, i0) ==
    LET i == SkipWs(s, i0)
        c == At(s, i)
    IN  CASE c = "n" ->
                IF i + 3 <= Len(s) /\ SubSeq(s, i, i + 3) = <<"n", "u", "l", "l">>
                THEN ParseOk(Null, i + 4) ELSE ParseFail
          [] c = "0" -> ParseOk(Num(0), i + 1)
          [] IsDigit(c) /\ c # "0" ->
                LET d == ParseDigits(s, i, 0) IN ParseOk(Num(d.val), d.pos)
          [] c = "\"" -> ParseChars(s, i + 1, <<>>)
          [] c = "[" ->
                IF At(s, SkipWs(s, i + 1)) = "]"
                THEN ParseOk(Arr(<<>>), SkipWs(s, i + 1) + 1)
                ELSE ParseElems(s, i + 1, <<>>)
          [] c = "{" ->
                IF At(s, SkipWs(s, i + 1)) = "}"
                THEN ParseOk(EmptyObj, SkipWs(s, i + 1) + 1)
                ELSE ParseMembers(s, i + 1, <<>>)
          [] OTHER -> ParseFail

ParseElems(s, i, acc) ==
    LET e == ParseValue(s, i)
        j == SkipWs(s, e.pos)
    IN  IF ~e.ok THEN ParseFail
        ELSE IF At(s, j) = "," THEN ParseElems(s, j + 1, Append(acc, e.val))
        ELSE IF At(s, j) = "]" THEN ParseOk(Arr(Append(acc, e.val)), j + 1)
        ELSE ParseFail

\* a repeated property name keeps its last value
ParseMembers(s, i0, acc) ==
    LET i == SkipWs(s, i0)
        k == IF At(s, i) = "\"" THEN ParseChars(s, i + 1, <<>>) ELSE ParseFail
        c == SkipWs(s, k.pos)
        e == IF k.ok /\ At(s, c) = ":" THEN ParseValue(s, c + 1) ELSE ParseFail
        j == SkipWs(s, e.pos)
        name == KeyOfText(k.val.v)
        more == [x \in (DOMAIN acc) \cup {name} |-> IF x = name THEN e.val ELSE acc[x]]
    IN  IF ~e.ok THEN ParseFail
        ELSE IF At(s, j) = "," THEN ParseMembers(s, j + 1, more)
        ELSE IF At(s, j) = "}" THEN ParseOk(Obj(more), j + 1)
        ELSE ParseFail

\* JSON.parse: [ok, val]; ok is FALSE where JSON.parse throws
JsonParse(s) ==
    LET r == ParseValue(s, 1)
    IN  IF r.ok /\ SkipWs(s, r.pos) = Len(s) + 1 THEN r ELSE ParseFail

(***************************************************************************)
(* extractData (apiService.ts 125-155)                                     *)
(***************************************************************************)
\* line 149: an object that has an identifier or any key at all
LooksLikeRecord_IdOnly(response) ==
    Truthy(Get(response, "site_id")) \/ Truthy(Get(response, "event_id"))
        \/ Truthy(Get(response, "person_id"))
LooksLikeRecord(response) ==
    Truthy(Get(response, "site_id")) \/ Truthy(Get(response, "event_id"))
        \/ Truthy(Get(response, "person_id")) \/ Cardinality(Keys(response)) > 0

RECURSIVE extractData(_)
extractData(response) ==
    IF ~Truthy(response) THEN <<>>
    ELSE IF Truthy(Get(response, "data")) /\ IsArr(Get(response, "data"))
         THEN Get(response, "data").v
    ELSE IF IsArr(response) THEN response.v
    ELSE IF Truthy(Get(response, "contents"))
         THEN IF IsStr(Get(response, "contents"))
              THEN CHOOSE r \in {IF p.ok THEN extractData(p.val) ELSE <<>> :
                                    p \in {JsonParse(Get(response, "contents").v)}} : TRUE
              ELSE extractData(Get(response, "contents"))
    ELSE IF IsObj(response) /\ LooksLikeRecord(response) THEN <<response>>
    ELSE <<>>

(***************************************************************************)
(* Helpers of the mappers: Number(), parseInt(), a || b, Map, Set          *)
(***************************************************************************)
\* the element of a one-element set: {e : v \in {x}} is e with x evaluated
\* once and named v, as a const declaration does
The(S) == CHOOSE r \in S : TRUE

\* a || b
OrElse(a, b) == The({IF Truthy(v) THEN v ELSE b : v \in {a}})

AllDigits(cs) == \A i \in 1..Len(cs) : IsDigit(cs[i])

NumberOfText(cs) ==
    IF cs = <<>> THEN Num(0)
    ELSE IF AllDigits(cs) THEN Num(ParseDigits(cs, 1, 0).val)
    ELSE NaN

\* Number(x) on the values of the model (numbers are naturals)
NumberOf(x) ==
    CASE x.t = "number" -> x
      [] x.t = "null" -> Num(0)
      [] x.t = "undefined" -> NaN
      [] x.t = "nan" -> NaN
      [] OTHER -> The({NumberOfText(cs) : cs \in {Trim(ToStr(x))}})

\* parseInt(s, 10): the digits that lead the trimmed text, NaN without any
ParseInt(cs) ==
    The({IF t # <<>> /\ IsDigit(t[1]) THEN Num(ParseDigits(t, 1, 0).val) ELSE NaN :
            t \in {TrimLeft(cs)}})

\* Map.prototype.set on a map kept as its entries [k, v] in insertion order
MapSet(mp, p) ==
    IF \E i \in 1..Len(mp) : mp[i].k = p.k
    THEN [i \in 1..Len(mp) |-> IF mp[i].k = p.k THEN p ELSE mp[i]]
    ELSE Append(mp, p)

\* new Map(pairs): a later pair with a key already present replaces its value
RECURSIVE MapFromPairs(_, _)
MapFromPairs(pairs, acc) ==
    IF pairs = <<>> THEN acc
    ELSE The({MapFromPairs(Tail(pairs), next) : next \in {MapSet(acc, Head(pairs))}})

MapGet(mp, k) ==
    IF \E i \in 1..Len(mp) : mp[i].k = k
    THEN mp[CHOOSE i \in 1..Len(mp) : mp[i].k = k].v
    ELSE Undefined

MapValues(mp) == [i \in 1..Len(mp) |-> mp[i].v]

\* Set.prototype.add on a set kept in insertion order
SetAdd_Append(set, x) == Append(set, x)
SetAdd(set, x) == IF \E i \in 1..Len(set) : set[i] = x THEN set ELSE Append(set, x)

\* Array.from(new Set(keys)): the first occurrence of each key, in order
RECURSIVE Unique(_)
Unique(s) ==
    IF s = <<>> THEN <<>>
    ELSE The({SetAdd(r, s[Len(s)]) : r \in {Unique(SubSeq(s, 1, Len(s) - 1))}})

\* String(x).trim()
KeyStr(x) == Trim(ToStr(x))

\* the least of a non-empty set of indices
First(hits) == CHOOSE i \in hits : \A j \in hits : i <= j

(***************************************************************************)
(* parseAdditionalInfo, mapSite, mapPerson (apiService.ts 199-272)         *)
(***************************************************************************)
KhongTen == <<"K", "h", "ô", "n", "g", " ", "t", "ê", "n">>
ThanhPho == <<"T", "h", "à", "n", "h", " ", "p", "h", "ố">>
DiTich == <<"D", "i", " ", "t", "í", "c", "h">>
SuKien == <<"S", "ự", " ", "k", "i", "ệ", "n">>

parseAdditionalInfo(infoStr) ==
    IF ~Truthy(infoStr) THEN Undefined
    ELSE The({IF p.ok /\ p.val.t \in {"object", "array"} THEN p.val
              ELSE Obj([k \in {"Thông tin"} |-> infoStr]) :
                p \in {JsonParse(ToStr(infoStr))}})

\* Number(...) || 0
NumberOrZero(x) == OrElse(NumberOf(x), Num(0))

\* lines 216-227
mapCity(item, cityId) ==
    Obj([site_id |-> cityId,
         site_name |-> getProp(item, <<"city_name">>),
         site_type |-> Str(ThanhPho),
         latitude |-> NumberOrZero(getProp(item, <<"lat", "latitude">>)),
         longitude |-> NumberOrZero(getProp(item, <<"lng", "longitude">>)),
         address |-> EmptyStr,
         description |-> EmptyStr,
         additional_info |-> Obj([k \in {"City ID"} |-> Str(ToStr(cityId))]),
         city_id |-> cityId])

mapSite(item) ==
    IF Truthy(getProp(item, <<"city_name">>)) /\ ~Truthy(getProp(item, <<"site_type">>))
    THEN The({mapCity(item, cityId) : cityId \in {getProp(item, <<"city_id", "id">>)}})
    ELSE Obj([site_id |-> getProp(item, <<"site_id", "id">>),
              site_name |-> OrElse(getProp(item, <<"site_name", "name">>), Str(KhongTen)),
              site_type |-> OrElse(getProp(item, <<"site_type", "type">>), Str(DiTich)),
              latitude |-> NumberOrZero(getProp(item, <<"latitude", "lat">>)),
              longitude |-> NumberOrZero(getProp(item, <<"longitude", "lng", "long">>)),
              address |-> OrElse(getProp(item, <<"address", "addr">>), EmptyStr),
              description |-> Str(cleanText(getProp(item,
                    <<"site_description", "description", "desc", "summary", "content">>))),
              established_year |-> getProp(item, <<"established_year", "year">>),
              status |-> getProp(item, <<"status">>),
              city_id |-> getProp(item, <<"city_id">>),
              additional_info |->
                    OrElse(parseAdditionalInfo(getProp(item, <<"additional_info", "info">>)),
                           EmptyObj)])

parseYear(val) ==
    IF val.t \in {"number", "nan"} THEN val
    ELSE IF IsStr(val) /\ Trim(val.v) # <<>>
         THEN The({IF num = NaN THEN Undefined ELSE num : num \in {ParseInt(val.v)}})
    ELSE Undefined

mapPerson(item) ==
    Obj([person_id |-> getProp(item, <<"person_id", "id">>),
         full_name |-> OrElse(getProp(item, <<"full_name", "person_name", "name">>),
                              Str(KhongTen)),
         birth_year |-> The({parseYear(bYear) : bYear \in {getProp(item, <<"birth_year", "birth">>)}}),
         death_year |-> The({parseYear(dYear) : dYear \in {getProp(item, <<"death_year", "death">>)}})])

(***************************************************************************)
(* hydrateEvents (apiService.ts 274-330), reading the store rd             *)
(***************************************************************************)
Video == <<"v", "i", "d", "e", "o">>
Youtube == <<"y", "o", "u", "t", "u", "b", "e">>
Image == <<"i", "m", "a", "g", "e">>

\* lines 289-294
mapMedia(md) ==
    Obj([media_id |-> getProp(md, <<"media_id", "id">>),
         media_url |-> OrElse(getProp(md, <<"media_url", "url", "link">>), EmptyStr),
         media_type |->
            IF getProp(md, <<"media_type", "type">>) = Str(Video)
                \/ getProp(md, <<"media_type">>) = Str(Youtube)
            THEN Str(Video) ELSE Str(Image),
         caption |-> OrElse(getProp(md, <<"caption", "event_name", "title">>), EmptyStr)])

\* lines 282-284 and 297-299: the keys, read under keyNames, of the rows of a
\* relation that name the event
RelatedKeys(relations, evtKeyStr, keyNames) ==
    The({[i \in 1..Len(rows) |-> KeyStr(getProp(rows[i], keyNames))] :
            rows \in {SelectSeq(relations, LAMBDA r :
                        KeyStr(getProp(r, <<"event_key", "event_id">>)) = evtKeyStr)}})

\* lines 287-288 and 308-309: keys.map(k => map.get(k)).filter(x => !!x)
Joined(keys, mp) == SelectSeq([i \in 1..Len(keys) |-> MapGet(mp, keys[i])], Truthy)

\* lines 297-305
PersonKeysOf(evt, rd, evtKeyStr) ==
    The({Unique(IF Truthy(getProp(evt, <<"main_person_key">>))
                THEN Append(joined, KeyStr(getProp(evt, <<"main_person_key">>)))
                ELSE joined) :
            joined \in {RelatedKeys(rd.personEventRelations, evtKeyStr,
                                    <<"person_key", "person_id">>)}})

\* lines 319-328
HydratedEvent(evt, eventMedia, eventPersons) ==
    Obj([event_id |-> getProp(evt, <<"event_id", "id">>),
         event_name |-> OrElse(getProp(evt, <<"event_name", "name", "title">>), Str(SuKien)),
         start_date |->
            The({IF rawDate.t \notin {"undefined", "null"} THEN Str(ToStr(rawDate))
                 ELSE Undefined :
                    rawDate \in {getProp(evt, <<"event_date", "date", "start_date">>)}}),
         description |-> Str(cleanText(getProp(evt,
                <<"event_description", "description", "desc", "summary">>))),
         media |-> Arr([i \in 1..Len(eventMedia) |-> mapMedia(eventMedia[i])]),
         persons |-> Arr([i \in 1..Len(eventPersons) |-> mapPerson(eventPersons[i])]),
         related_site_id |->
            The({IF Truthy(siteRef) THEN Str(ToStr(siteRef)) ELSE Undefined :
                    siteRef \in {getProp(evt, <<"site_key", "site_id">>)}}),
         related_site_name |-> EmptyStr])

hydrateEventKeyed(evt, rd, evtKeyStr) ==
    The({HydratedEvent(evt, eventMedia, eventPersons) :
            eventMedia \in {Joined(RelatedKeys(rd.eventMediaRelations, evtKeyStr,
                                               <<"media_key", "media_id">>), rd.mediaMap)},
            eventPersons \in {Joined(PersonKeysOf(evt, rd, evtKeyStr), rd.personMap)}})

hydrateEvent(evt, rd) ==
    The({hydrateEventKeyed(evt, rd, evtKeyStr) :
            evtKeyStr \in {KeyStr(getProp(evt, <<"event_key", "id">>))}})

hydrateEvents_Reversed(rawEvents, rd) ==
    [i \in 1..Len(rawEvents) |-> hydrateEvent(rawEvents[Len(rawEvents) + 1 - i], rd)]

hydrateEvents(rawEvents, rd) == [i \in 1..Len(rawEvents) |-> hydrateEvent(rawEvents[i], rd)]

(***************************************************************************)
(* The person location resolver: the loop body of fetchPersons             *)
(* (apiService.ts 407-518), over the sites in use and the store rd         *)
(***************************************************************************)
UpperCase == <<"A", "B", "C", "D", "E", "G", "H", "I", "K", "L", "M", "N",
               "O", "P", "Q", "R", "S", "T", "U", "V", "X", "Y">>
LowerCase == <<"a", "b", "c", "d", "e", "g", "h", "i", "k", "l", "m", "n",
               "o", "p", "q", "r", "s", "t", "u", "v", "x", "y">>

LowerChar(c) ==
    IF \E i \in 1..Len(UpperCase) : UpperCase[i] = c
    THEN LowerCase[CHOOSE i \in 1..Len(UpperCase) : UpperCase[i] = c]
    ELSE c

\* String.prototype.toLowerCase
ToLower(cs) == [i \in 1..Len(cs) |-> LowerChar(cs[i])]

\* String.prototype.includes
Includes(text, sub) ==
    \E i \in 0..(Len(text) - Len(sub)) : SubSeq(text, i + 1, i + Len(sub)) = sub

\* values.join(' ')
RECURSIVE JoinWithSpace(_)
JoinWithSpace(vals) ==
    IF vals = <<>> THEN <<>>
    ELSE IF Len(vals) = 1 THEN ToStr(vals[1])
    ELSE ToStr(vals[1]) \o <<" ">> \o JoinWithSpace(Tail(vals))

\* the length the comparator of line 409 reads
NameLength(site) ==
    IF IsStr(Get(site, "site_name")) THEN Len(Get(site, "site_name").v) ELSE 0

\* [...sites].sort((a, b) => b.site_name.length - a.site_name.length): a
\* stable sort, longest name first
RECURSIVE InsertByNameLength(_, _)
InsertByNameLength(sorted, site) ==
    IF sorted = <<>> THEN <<site>>
    ELSE IF NameLength(Head(sorted)) >= NameLength(site)
         THEN <<Head(sorted)>> \o InsertByNameLength(Tail(sorted), site)
    ELSE <<site>> \o sorted

SortByNameLength_Unsorted(sites) == sites
RECURSIVE SortByNameLength(_)
SortByNameLength(sites) ==
    IF sites = <<>> THEN <<>>
    ELSE The({InsertByNameLength(sorted, sites[Len(sites)]) :
                sorted \in {SortByNameLength(SubSeq(sites, 1, Len(sites) - 1))}})

SinhTai == <<"s", "i", "n", "h", " ", "t", "ạ", "i", " ">>
SinhO == <<"s", "i", "n", "h", " ", "ở", " ">>
Nguoi == <<"n", "g", "ư", "ờ", "i", " ">>
Que == <<"q", "u", "ê", " ">>

\* lines 443, 509 and 545: sites.find(s => String(s.site_id) === String(id))
SiteById(sites, id) ==
    The({IF hits = {} THEN Undefined ELSE sites[First(hits)] :
            hits \in {{i \in 1..Len(sites) : ToStr(Get(sites[i], "site_id")) = ToStr(id)}}})

\* line 438
EventLinked(evt, linkedEventKeys, pKey) ==
    \/ \E j \in 1..Len(linkedEventKeys) :
            linkedEventKeys[j] = KeyStr(getProp(evt, <<"event_key", "id">>))
    \/ KeyStr(getProp(evt, <<"main_person_key">>)) = pKey

\* lines 446-447
AddSiteCities(related, site) ==
    The({IF Get(site, "site_type") = Str(ThanhPho)
         THEN SetAdd(withCity, Str(ToStr(Get(site, "site_id")))) ELSE withCity :
            withCity \in {IF Truthy(Get(site, "city_id"))
                          THEN SetAdd(related, Str(ToStr(Get(site, "city_id"))))
                          ELSE related}})

\* lines 441-449
EventCities(evt, sites, related) ==
    The({IF Truthy(site) THEN AddSiteCities(related, site) ELSE related :
            site \in {The({IF Truthy(siteId) THEN SiteById(sites, siteId) ELSE Undefined :
                        siteId \in {getProp(evt, <<"site_id", "site_key", "location_id">>)}})}})

\* Strategy A, lines 434-451: the cities of the sites of the linked events
RECURSIVE StrategyA(_, _, _, _, _, _)
StrategyA(events, i, linkedEventKeys, pKey, sites, related) ==
    IF i > Len(events) THEN related
    ELSE The({StrategyA(events, i + 1, linkedEventKeys, pKey, sites, next) :
                next \in {IF EventLinked(events[i], linkedEventKeys, pKey)
                          THEN EventCities(events[i], sites, related) ELSE related}})

\* lines 471-482: does the site's name occur in the person's texts
SiteNameMatches(siteName, textToSearch, bioToSearch) ==
    \/ Includes(textToSearch, siteName)
    \/ Includes(bioToSearch, SinhTai \o siteName)
    \/ Includes(bioToSearch, SinhO \o siteName)
    \/ Includes(bioToSearch, Nguoi \o siteName)
    \/ Includes(bioToSearch, Que \o siteName)

\* lines 465-482
SiteMatches(site, textToSearch, bioToSearch) ==
    The({Len(siteName) >= 3 /\ SiteNameMatches(siteName, textToSearch, bioToSearch) :
            siteName \in {ToLower(Get(site, "site_name").v)}})

\* lines 484-496: st is [related, mapLocation]
MatchedSite_LastMatchPins(site, st) ==
    [related |-> IF Get(site, "site_type") = Str(ThanhPho)
                 THEN SetAdd(st.related, Str(ToStr(Get(site, "site_id"))))
                 ELSE IF Truthy(Get(site, "city_id"))
                      THEN SetAdd(st.related, Str(ToStr(Get(site, "city_id"))))
                 ELSE st.related,
     mapLocation |-> site]

MatchedSite(site, st) ==
    [related |-> IF Get(site, "site_type") = Str(ThanhPho)
                 THEN SetAdd(st.related, Str(ToStr(Get(site, "site_id"))))
                 ELSE IF Truthy(Get(site, "city_id"))
                      THEN SetAdd(st.related, Str(ToStr(Get(site, "city_id"))))
                 ELSE st.related,
     mapLocation |-> IF ~Truthy(st.mapLocation) THEN site ELSE st.mapLocation]

\* Strategy B, lines 464-497
RECURSIVE StrategyB(_, _, _, _, _)
StrategyB(searchableSites, i, textToSearch, bioToSearch, st) ==
    IF i > Len(searchableSites) THEN st
    ELSE The({StrategyB(searchableSites, i + 1, textToSearch, bioToSearch, next) :
                next \in {IF SiteMatches(searchableSites[i], textToSearch, bioToSearch)
                          THEN MatchedSite(searchableSites[i], st) ELSE st}})

\* lines 415-431
LinkedEventKeys(rawPerson, rd) ==
    The({[i \in 1..Len(rows) |-> KeyStr(getProp(rows[i], <<"event_key", "event_id">>))] :
            rows \in {SelectSeq(rd.personEventRelations, LAMBDA r :
                        KeyStr(getProp(r, <<"person_key", "person_id">>))
                            \in {KeyStr(getProp(rawPerson, <<"person_key", "id">>)),
                                 KeyStr(getProp(rawPerson, <<"person_id", "id">>))})}})

\* lines 455-460
TextToSearch(rawPerson) ==
    ToLower(JoinWithSpace(SelectSeq(
        <<getProp(rawPerson, <<"birthplace", "birth_place", "place_of_birth", "hometown">>),
          getProp(rawPerson, <<"address", "que_quan">>)>>, Truthy)))

\* lines 457-461
BioToSearch(rawPerson) ==
    The({IF Truthy(bio) THEN ToLower(ToStr(bio)) ELSE <<>> :
            bio \in {getProp(rawPerson, <<"biography", "bio", "description">>)}})

\* lines 499-515: the pin is the matched site, else the first related city
Located(person, found, pin) ==
    IF Truthy(pin)
    THEN Obj([latitude |-> Get(pin, "latitude"),
              longitude |-> Get(pin, "longitude"),
              location_name |-> Get(pin, "site_name"),
              related_city_ids |-> Arr(found.related)] @@ person.v)
    ELSE Obj([related_city_ids |-> Arr(found.related)] @@ person.v)

PinOf(found, sites) ==
    IF Truthy(found.mapLocation) THEN found.mapLocation
    ELSE IF found.related # <<>> THEN SiteById(sites, found.related[1])
    ELSE Undefined

resolvePerson(rawPerson, sites, searchableSites, rd) ==
    The({The({Located(mapPerson(rawPerson), found, pin) : pin \in {PinOf(found, sites)}}) :
            found \in {The({StrategyB(searchableSites, 1, textToSearch, bioToSearch,
                                      [related |-> fromEvents, mapLocation |-> Undefined]) :
                        textToSearch \in {TextToSearch(rawPerson)},
                        bioToSearch \in {BioToSearch(rawPerson)},
                        fromEvents \in
                            {The({StrategyA(rd.eventsCache, 1, linkedEventKeys, pKey,
                                            sites, <<>>) :
                                    linkedEventKeys \in {LinkedEventKeys(rawPerson, rd)},
                                    pKey \in {KeyStr(getProp(rawPerson,
                                                             <<"person_key", "id">>))}})}})}})

\* lines 409-518: one Person per raw person of the store's person map
resolvePersons_LocatedOnly(sites, rd) ==
    The({SelectSeq([i \in 1..Len(rd.personMap) |->
                        resolvePerson(rd.personMap[i].v, sites, searchableSites, rd)],
                   LAMBDA p : "latitude" \in DOMAIN p.v) :
            searchableSites \in {SortByNameLength(sites)}})

resolvePersons(sites, rd) ==
    The({[i \in 1..Len(rd.personMap) |->
                resolvePerson(rd.personMap[i].v, sites, searchableSites, rd)] :
            searchableSites \in {SortByNameLength(sites)}})

(***************************************************************************)
(* The process-wide state (apiService.ts 21-43) and the invocations        *)
(***************************************************************************)
EmptyStore ==
    [mediaMap |-> <<>>, eventMediaRelations |-> <<>>, personEventRelations |-> <<>>,
     personMap |-> <<>>, eventsCache |-> <<>>, isLoaded |-> FALSE, isLoading |-> FALSE]

CallIds == 1..MaxCalls

\* an invocation: which function, where it is suspended, its locals (res holds
\* sitesRes and citiesRes of fetchSites), what it returned; ensRet records
\* what ensureReferenceDataLoaded returned into
IdleCall ==
    [kind |-> "none", pc |-> "idle", id |-> Null, siteInfo |-> Null, rawSite |-> Null,
     personInfo |-> Null, rawPerson |-> Null, res |-> <<>>, ret |-> Undefined,
     ensRet |-> "none", allFailed |-> FALSE]

StoreOff ==
    /\ refData = EmptyStore
    /\ globalSiteCache = <<>>
    /\ globalPersonCache = <<>>
    /\ calls = [c \in CallIds |-> IdleCall]
    /\ detailCache = <<>>

(***************************************************************************)
(* fetchWithRetry, promiseAny and fetchFromApi (apiService.ts 57-123)      *)
(***************************************************************************)
\* PROXY_LIST holds three proxies; strategy 0 is the direct request
NumProxies == 3
Strategies == 0..NumProxies

HttpStatuses == {200, 404, 500}
ResponseOk(status) == status >= 200 /\ status <= 299

\* lines 86-90: what fetchWithRetry does with a response once its headers are in
FetchWithRetryOnResponse_404Throws(status) ==
    IF ~ResponseOk(status) THEN "throw" ELSE "json"
FetchWithRetryOnResponse(status) ==
    IF ~ResponseOk(status)
    THEN IF status = 404 THEN "null" ELSE "throw"
    ELSE "json"

\* lines 106-113: a proxy strategy unwraps {contents: ...}; JSON.parse is
\* given String(contents)
ProxyUnwrap(json) ==
    IF Truthy(json) /\ Truthy(Get(json, "contents"))
    THEN LET p == JsonParse(ToStr(Get(json, "contents")))
         IN  IF p.ok THEN p.val ELSE Get(json, "contents")
    ELSE json

StrategyValue(s, json) == IF s = 0 THEN json ELSE ProxyUnwrap(json)

\* lines 64-76: the promise of promiseAny; resolve and reject act once only
NewRace(n) == [st |-> "pending", pending |-> n, val |-> Undefined]

\* (a race that a null value does not settle)
PromiseAnyResolve_DataOnly(r, v) ==
    IF r.st = "pending" /\ v # Null THEN [r EXCEPT !.st = "fulfilled", !.val = v] ELSE r
PromiseAnyResolve(r, v) ==
    IF r.st = "pending" THEN [r EXCEPT !.st = "fulfilled", !.val = v] ELSE r

\* (a race that gives up at the first rejection)
PromiseAnyReject_FirstErrorRejects(r) ==
    IF r.st = "pending"
    THEN [r EXCEPT !.pending = r.pending - 1, !.st = "rejected"]
    ELSE [r EXCEPT !.pending = r.pending - 1]
PromiseAnyReject(r) ==
    LET left == r.pending - 1
    IN  IF left = 0 /\ r.st = "pending"
        THEN [r EXCEPT !.pending = left, !.st = "rejected"]
        ELSE [r EXCEPT !.pending = left]

\* lines 117-122: fetchFromApi returns the race's value, [] when it rejects
NoReturn == [done |-> FALSE, val |-> Undefined]
\* (a fetch that resolves to null when every attempt failed)
FetchFromApiReturn_NullOnFailure(r) ==
    CASE r.st = "fulfilled" -> [done |-> TRUE, val |-> r.val]
      [] r.st = "rejected" -> [done |-> TRUE, val |-> Null]
      [] OTHER -> NoReturn
FetchFromApiReturn(r) ==
    CASE r.st = "fulfilled" -> [done |-> TRUE, val |-> r.val]
      [] r.st = "rejected" -> [done |-> TRUE, val |-> Arr(<<>>)]
      [] OTHER -> NoReturn

\* what the backend and the proxies may send as a body
BackendList == Arr(<<Obj([id |-> Num(1)])>>)
BodyTexts ==
    {JsonStringify(BackendList),
     JsonStringify(Obj([contents |-> Str(JsonStringify(BackendList))])),
     <<"<", "h", "t", "m", "l", ">">>}

IdleAttempt == [st |-> "idle", status |-> 0, val |-> Undefined]
NoneYet == [set |-> FALSE, val |-> Undefined]

RaceIdle ==
    /\ att = [s \in Strategies |-> IdleAttempt]
    /\ race = [st |-> "idle", pending |-> 0, val |-> Undefined]
    /\ apiRet = NoReturn
    /\ firstOk = NoneYet

RaceOff ==
    /\ att = [s \in Strategies |-> IdleAttempt]
    /\ race = [st |-> "off", pending |-> 0, val |-> Undefined]
    /\ apiRet = NoReturn
    /\ firstOk = NoneYet

\* line 118: strategies.map(fn => fn()) starts every attempt, each with its
\* 15 s abort timer armed (line 81), and hands the promises to promiseAny
StartFetch ==
    /\ race.st = "idle"
    /\ att' = [s \in Strategies |-> [IdleAttempt EXCEPT !.st = "waiting"]]
    /\ race' = NewRace(NumProxies + 1)
    /\ UNCHANGED <<apiRet, firstOk, pureVars, storeVars>>

\* attempt s fulfils with v: promiseAny's then(resolve) runs
AttemptFulfils(s, status, v) ==
    /\ att' = [att EXCEPT ![s] = [st |-> "fulfilled", status |-> status, val |-> v]]
    /\ race' = PromiseAnyResolve(race, v)
    /\ apiRet' = IF apiRet.done THEN apiRet ELSE FetchFromApiReturn(race')
    /\ firstOk' = IF firstOk.set THEN firstOk ELSE [set |-> TRUE, val |-> v]
    /\ UNCHANGED <<pureVars, storeVars>>

\* attempt s rejects: promiseAny's catch handler runs
AttemptRejects(s, status) ==
    /\ att' = [att EXCEPT ![s] = [st |-> "rejected", status |-> status, val |-> Undefined]]
    /\ race' = PromiseAnyReject(race)
    /\ apiRet' = IF apiRet.done THEN apiRet ELSE FetchFromApiReturn(race')
    /\ UNCHANGED <<firstOk, pureVars, storeVars>>

\* lines 84-90: fetch resolves with the response headers; the timer is cleared
HeadersArrive(s) ==
    /\ att[s].st = "waiting"
    /\ \E status \in HttpStatuses :
        CASE FetchWithRetryOnResponse(status) = "null" ->
                AttemptFulfils(s, status, StrategyValue(s, Null))
          [] FetchWithRetryOnResponse(status) = "throw" ->
                AttemptRejects(s, status)
          [] OTHER ->
                /\ att' = [att EXCEPT ![s] = [st |-> "reading", status |-> status,
                                              val |-> Undefined]]
                /\ UNCHANGED <<race, apiRet, firstOk, pureVars, storeVars>>

\* line 84: fetch rejects (no route, CORS refusal, connection reset)
NetworkError(s) ==
    /\ att[s].st = "waiting"
    /\ AttemptRejects(s, 0)

\* line 81: the timer fires while fetch is still waiting: abort, fetch rejects
Timeout(s) ==
    /\ att[s].st = "waiting"
    /\ AttemptRejects(s, 0)

\* line 90: response.json() reads the body to its end and parses it
BodyArrives(s) ==
    /\ att[s].st = "reading"
    /\ \E text \in BodyTexts :
        IF JsonParse(text).ok
        THEN AttemptFulfils(s, att[s].status, StrategyValue(s, JsonParse(text).val))
        ELSE AttemptRejects(s, att[s].status)

\* line 90: the connection breaks while the body is read
BodyFails(s) ==
    /\ att[s].st = "reading"
    /\ AttemptRejects(s, att[s].status)

NextRace ==
    \/ StartFetch
    \/ \E s \in Strategies : HeadersArrive(s)
    \/ \E s \in Strategies : NetworkError(s)
    \/ \E s \in Strategies : Timeout(s)
    \/ \E s \in Strategies : BodyArrives(s)
    \/ \E s \in Strategies : BodyFails(s)

PureOff == fnArg = Undefined /\ fnRet = Undefined /\ fnPc = "off"

InitRace == RaceIdle /\ PureOff /\ StoreOff

SpecRace == InitRace /\ [][NextRace]_vars

\* The timers are the runtime's and do fire; nothing makes the network answer.
LiveSpecRace ==
    /\ SpecRace
    /\ WF_vars(StartFetch)
    /\ \A s \in Strategies : WF_vars(Timeout(s))

\* C4: the four attempts are launched together, and the call resolves with
\* the value of the attempt that fulfils first in completion order; attempts
\* that reject or fulfil later leave that result as it is
RaceFirstSuccessWins ==
    /\ race.st # "idle" => \A s \in Strategies : att[s].st # "idle"
    /\ firstOk.set => apiRet = [done |-> TRUE, val |-> firstOk.val]
    /\ apiRet.done /\ ~firstOk.set => \A s \in Strategies : att[s].st = "rejected"

\* C4 witness: the call has resolved with one attempt's value, and another
\* attempt has fulfilled later with a different value
RaceWitness ==
    /\ apiRet.done
    /\ \E s, u \in Strategies :
        /\ att[s].st = "fulfilled" /\ att[s].val = apiRet.val
        /\ att[u].st = "fulfilled" /\ att[u].val # apiRet.val

\* C6: an attempt answered with 404 fulfils with null, which extractData
\* turns into the empty list; any other status outside 200-299 rejects it
NotFoundIsNoData ==
    \A s \in Strategies :
        /\ att[s].status = 404 =>
                /\ att[s].st = "fulfilled"
                /\ att[s].val = Null
                /\ extractData(att[s].val) = <<>>
        /\ (att[s].status \notin (200..299) \cup {0, 404}) => att[s].st = "rejected"

\* C6 witness: one attempt got 404 and fulfilled, another got 500 and rejected
NotFoundWitness ==
    \E s, u \in Strategies :
        /\ att[s].status = 404 /\ att[s].st = "fulfilled"
        /\ att[u].status = 500 /\ att[u].st = "rejected"

\* C7: every call to fetchFromApi eventually resolves
FetchEventuallyResolves == <>(apiRet.done)

(***************************************************************************)
(* The backend: what each endpoint holds, and what fetchFromApi can        *)
(* resolve to for it.                                                      *)
(***************************************************************************)
Hue == <<"H", "u", "ế">>

SiteHue ==
    Obj([site_id |-> Num(1), site_key |-> Str(<<"s", "1">>), site_name |-> Str(Hue),
         latitude |-> Str(<<"1", "6">>), longitude |-> Num(107), city_id |-> Num(10)])
SiteUnmapped == Obj([id |-> Num(2), name |-> Str(<<"X">>)])
CityHue ==
    Obj([city_id |-> Num(10), city_name |-> Str(<<"T", "P", " ">> \o Hue),
         lat |-> Num(16), lng |-> Num(107)])
PersonA ==
    Obj([person_id |-> Num(1), person_key |-> Str(<<"p", "1">>), full_name |-> Str(<<"A">>),
         birth_year |-> Str(<<"1", "9", "0", "0">>), hometown |-> Str(Hue)])
MediaV == Obj([media_id |-> Num(1), media_url |-> Str(<<"u">>), media_type |-> Str(Youtube)])
EventE ==
    Obj([event_id |-> Num(1), event_key |-> Num(1), event_name |-> Str(<<"E">>),
         site_id |-> Num(1), event_description |-> Str(<<"d", " ", "[", "1", "]">>)])
EventMediaRow == Obj([event_key |-> Num(1), media_id |-> Num(1)])
PersonEventRow == Obj([person_key |-> Str(<<"p", "1">>), event_key |-> Num(1)])

\* the identifiers a detail view may ask for: one that exists, one that does not
DetailIds == {Num(1), Num(9)}

\* the body of a 200 answer of the endpoint; Null where the backend answers 404
Payload(path, id) ==
    CASE path = "/locations" -> Arr(<<SiteHue, SiteUnmapped>>)
      [] path = "/cities" -> Obj([count |-> Num(1), data |-> Arr(<<CityHue>>)])
      [] path = "/media" -> Arr(<<MediaV>>)
      [] path = "/event_media" -> Arr(<<EventMediaRow>>)
      [] path = "/person_event" -> Arr(<<PersonEventRow>>)
      [] path = "/persons" -> Arr(<<PersonA>>)
      [] path = "/event" -> Arr(<<EventE>>)
      [] path = "/locations/id" -> IF id = Num(1) THEN SiteHue ELSE Null
      [] path = "/persons/id" -> IF id = Num(1) THEN PersonA ELSE Null
      [] path = "/event/location/id" -> IF id = Num(1) THEN Arr(<<EventE>>) ELSE Arr(<<>>)

\* how one attempt may settle: with the payload, with null (404), or rejected
Settlements(payload) ==
    {[ok |-> TRUE, val |-> payload], [ok |-> TRUE, val |-> Null],
     [ok |-> FALSE, val |-> Undefined]}

\* the settlements of the four attempts, in completion order
Schedules(payload) == [1..(NumProxies + 1) -> Settlements(payload)]

\* promiseAny's reactions run in completion order (lines 69-75)
RECURSIVE RunRace(_, _, _)
RunRace(r, sched, i) ==
    IF i > Len(sched) THEN r
    ELSE RunRace(IF sched[i].ok THEN PromiseAnyResolve(r, sched[i].val)
                 ELSE PromiseAnyReject(r),
                 sched, i + 1)

fetchFromApi(sched) == FetchFromApiReturn(RunRace(NewRace(Len(sched)), sched, 1))

AllRejected(sched) == \A i \in 1..Len(sched) : ~sched[i].ok

\* what a call of fetchFromApi may resolve to, and whether every attempt
\* rejected; it resolves in every schedule, so the catch blocks of its
\* callers are not entered on its account
FetchOutcomes(path, id) ==
    {[val |-> fetchFromApi(sched).val, failed |-> AllRejected(sched)] :
        sched \in Schedules(Payload(path, id))}

(***************************************************************************)
(* ensureReferenceDataLoaded (apiService.ts 159-195)                       *)
(***************************************************************************)
\* line 160
EnsureSkips_LoadedOnly(rd) == rd.isLoaded
EnsureSkips_LoadingOnly(rd) == rd.isLoading
EnsureSkips(rd) == rd.isLoaded \/ rd.isLoading

\* lines 173-176 and 182-186: new Map(items.map(x => [String(key).trim(), x]))
KeyedBy(items, keyNames) ==
    The({MapFromPairs(pairs, <<>>) :
            pairs \in {[i \in 1..Len(items) |->
                            [k |-> KeyStr(getProp(items[i], keyNames)), v |-> items[i]]]}})

\* lines 173-193, once Promise.all has resolved
LoadedStore(mediaRes, eventMediaRes, personEventRes, personsRes, eventsRes) ==
    [mediaMap |->
        The({KeyedBy(allMedia, <<"media_key", "media_id">>) :
                allMedia \in {extractData(mediaRes)}}),
     eventMediaRelations |-> extractData(eventMediaRes),
     personEventRelations |-> extractData(personEventRes),
     eventsCache |-> extractData(eventsRes),
     personMap |->
        The({KeyedBy(allPersons, <<"person_key", "person_id">>) :
                allPersons \in {extractData(personsRes)}}),
     isLoaded |-> TRUE,
     isLoading |-> FALSE]

(***************************************************************************)
(* fetchSites, fetchPersons, fetchSiteDetail, fetchPersonDetail            *)
(* (apiService.ts 358-688): what each computes between two awaits          *)
(***************************************************************************)
\* lines 372 and 379: site.latitude && site.longitude
Mapped_Always(site) == TRUE
Mapped_NotOrigin(site) ==
    ~(Get(site, "latitude") = Num(0) /\ Get(site, "longitude") = Num(0))
Mapped(site) == Truthy(Get(site, "latitude")) /\ Truthy(Get(site, "longitude"))

\* line 380
HasCity_SameValue(mappedSites, citySite) ==
    \E i \in 1..Len(mappedSites) :
        /\ Get(mappedSites[i], "site_id") = Get(citySite, "site_id")
        /\ Get(mappedSites[i], "site_type") = Str(ThanhPho)
HasCity(mappedSites, citySite) ==
    \E i \in 1..Len(mappedSites) :
        /\ ToStr(Get(mappedSites[i], "site_id")) = ToStr(Get(citySite, "site_id"))
        /\ Get(mappedSites[i], "site_type") = Str(ThanhPho)

\* lines 378-383
PushCity(mappedSites, citySite) ==
    IF Mapped(citySite) /\ ~HasCity(mappedSites, citySite)
    THEN Append(mappedSites, citySite) ELSE mappedSites

\* lines 376-385: the cities that pass the filter and are not yet present
RECURSIVE MergeCities(_, _)
MergeCities(mappedSites, citiesData) ==
    IF citiesData = <<>> THEN mappedSites
    ELSE The({MergeCities(next, Tail(citiesData)) :
                next \in {The({PushCity(mappedSites, citySite) :
                                citySite \in {mapSite(Head(citiesData))}})}})

\* sitesData.map(mapSite)
MapSites(sitesData) == [i \in 1..Len(sitesData) |-> mapSite(sitesData[i])]

\* lines 366-387
MappedSites(sitesRes, citiesRes) ==
    The({MergeCities(SelectSeq(MapSites(sitesData), Mapped), citiesData) :
            sitesData \in {extractData(sitesRes)},
            citiesData \in {extractData(citiesRes)}})

\* line 405
UnfilteredSites(sitesRes) ==
    The({MapSites(sitesData) \o <<>> : sitesData \in {extractData(sitesRes)}})

\* line 386: globalSiteCache = mappedSites
SiteCacheAfter_KeptWhenEmpty(siteCache, mappedSites) ==
    IF mappedSites = <<>> THEN siteCache ELSE mappedSites

SiteCacheAfter(siteCache, mappedSites) == mappedSites

\* line 465: toLowerCase is called on each site name once a person is scanned
ResolveThrows(sites, rd) ==
    /\ rd.personMap # <<>>
    /\ \E i \in 1..Len(sites) : ~IsStr(Get(sites[i], "site_name"))

\* the call returns; its locals are gone
Done(call, ret) ==
    [call EXCEPT !.pc = "done", !.ret = ret, !.siteInfo = Null, !.rawSite = Null,
                 !.personInfo = Null, !.rawPerson = Null]

\* lines 409-525, with the sites in use: the effect on the call and the caches
FinishFetchPersons(call, sites, rd, personCache) ==
    IF ResolveThrows(sites, rd)
    THEN [call |-> Done(call, Arr(<<>>)), personCache |-> personCache]
    ELSE The({[call |-> Done(call, Arr(persons)), personCache |-> persons] :
                persons \in {resolvePersons(sites, rd) \o <<>>}})

\* lines 535-546: the site of the direct request, else the cached site with
\* that id, else null
SiteInfoOf_CacheFirst(data, siteCache, id) ==
    The({IF Truthy(cached) THEN cached
         ELSE IF Len(data) > 0 THEN mapSite(data[1]) ELSE Null :
            cached \in {SiteById(siteCache, id)}})

SiteInfoOf(data, siteCache, id) ==
    IF Len(data) > 0 THEN mapSite(data[1]) ELSE OrElse(SiteById(siteCache, id), Null)

\* lines 566-567
SiteKeyStr(rawSite) ==
    IF rawSite # Null /\ Truthy(getProp(rawSite, <<"site_key">>))
    THEN Str(KeyStr(getProp(rawSite, <<"site_key">>))) ELSE Null

\* lines 570-582
AtSite(evt, siteKeyStr, siteIdStr) ==
    \/ /\ Truthy(getProp(evt, <<"site_key">>))
       /\ Truthy(siteKeyStr)
       /\ KeyStr(getProp(evt, <<"site_key">>)) = siteKeyStr.v
    \/ /\ Truthy(getProp(evt, <<"site_id">>))
       /\ KeyStr(getProp(evt, <<"site_id">>)) = siteIdStr

\* lines 564-583
SiteEventsRaw_BackendOnly(call, fromBackend, rd) == fromBackend

SiteEventsRaw(call, fromBackend, rd) ==
    IF Len(fromBackend) = 0 /\ Len(rd.eventsCache) > 0
    THEN The({SelectSeq(rd.eventsCache, LAMBDA evt : AtSite(evt, siteKeyStr, siteIdStr)) :
                siteKeyStr \in {SiteKeyStr(call.rawSite)},
                siteIdStr \in {KeyStr(call.id)}})
    ELSE fromBackend

\* lines 557-590
SiteDetailOf(call, eventsRes, rd) ==
    The({Obj([k \in {"events"} |-> Arr(hydrateEvents(siteEventsRaw, rd) \o <<>>)]
             @@ call.siteInfo.v) :
            siteEventsRaw \in {The({SiteEventsRaw(call, fromBackend, rd) :
                                    fromBackend \in {extractData(eventsRes)}})}})

\* lines 654-657
ConcatMedia_FirstEventOnly(events) ==
    IF events = <<>> THEN <<>>
    ELSE IF Truthy(Get(Head(events), "media")) THEN Get(Head(events), "media").v ELSE <<>>
RECURSIVE ConcatMedia(_)
ConcatMedia(events) ==
    IF events = <<>> THEN <<>>
    ELSE (IF Truthy(Get(Head(events), "media")) THEN Get(Head(events), "media").v ELSE <<>>)
         \o ConcatMedia(Tail(events))

\* Object.assign(target, source) for the keys of source
Assign(target, source) ==
    IF IsObj(source) THEN source.v @@ target
    ELSE IF IsArr(source) THEN [i \in DOMAIN source.v |-> source.v[i]] @@ target
    ELSE target

\* line 611: globalPersonCache.find(p => String(p.person_id) === String(personId))
PersonById(persons, id) ==
    The({IF hits = {} THEN Undefined ELSE persons[First(hits)] :
            hits \in {{i \in 1..Len(persons) :
                        ToStr(Get(persons[i], "person_id")) = ToStr(id)}}})

\* lines 619-627
RawPersonById(rd, id) ==
    The({IF hits = {} THEN Undefined ELSE rd.personMap[First(hits)].v :
            hits \in {{i \in 1..Len(rd.personMap) :
                        ToStr(getProp(rd.personMap[i].v, <<"person_id", "id">>)) = ToStr(id)}}})

\* lines 641-645
LinkedKeysOf(rd, dbKey) ==
    The({[i \in 1..Len(rows) |-> KeyStr(getProp(rows[i], <<"event_key", "event_id">>))] :
            rows \in {SelectSeq(rd.personEventRelations, LAMBDA r :
                        KeyStr(getProp(r, <<"person_key", "person_id">>)) = dbKey)}})

\* lines 647-652
PersonEvents(rd, linkedEventKeys) ==
    The({hydrateEvents(personEventsRaw, rd) \o <<>> :
            personEventsRaw \in {SelectSeq(rd.eventsCache, LAMBDA evt :
                \E i \in 1..Len(linkedEventKeys) :
                    linkedEventKeys[i] = KeyStr(getProp(evt, <<"event_key", "id">>)))}})

\* lines 660-671
AdditionalInfo(birthplace, extraInfoStr) ==
    IF Truthy(extraInfoStr)
    THEN Assign(IF Truthy(birthplace) THEN [k \in {"Quê quán"} |-> birthplace] ELSE <<>>,
                parseAdditionalInfo(extraInfoStr))
    ELSE IF Truthy(birthplace) THEN [k \in {"Quê quán"} |-> birthplace] ELSE <<>>

\* lines 673-682
PersonDetailWith(personInfo, rawPerson, hydratedEvents) ==
    Obj([biography |-> Str(cleanText(getProp(rawPerson,
                                             <<"biography", "bio", "description">>))),
         events |-> Arr(hydratedEvents),
         media |-> Arr(ConcatMedia(hydratedEvents)),
         additional_info |->
            The({Obj(AdditionalInfo(birthplace, extraInfoStr)) :
                    birthplace \in {getProp(rawPerson,
                                            <<"birthplace", "birth_place", "place_of_birth">>)},
                    extraInfoStr \in {getProp(rawPerson, <<"additional_info", "info">>)}}),
         latitude |-> Get(personInfo, "latitude"),
         longitude |-> Get(personInfo, "longitude"),
         location_name |-> Get(personInfo, "location_name")]
        @@ personInfo.v)

\* lines 629-682
PersonDetailFor(personInfo, rawPerson, rd) ==
    IF ~Truthy(rawPerson)
    THEN Obj([biography |-> EmptyStr, events |-> Arr(<<>>), media |-> Arr(<<>>)]
             @@ personInfo.v)
    ELSE The({PersonDetailWith(personInfo, rawPerson, hydratedEvents) :
                hydratedEvents \in
                    {The({PersonEvents(rd, linkedEventKeys) :
                            linkedEventKeys \in
                                {The({LinkedKeysOf(rd, dbKey) :
                                        dbKey \in {KeyStr(getProp(rawPerson,
                                                            <<"person_key", "id">>))}})}})}})

\* lines 619-682
PersonDetailOf(call, rd) ==
    The({PersonDetailFor(call.personInfo, rawPerson, rd) :
            rawPerson \in {IF call.rawPerson # Null THEN call.rawPerson
                           ELSE RawPersonById(rd, call.id)}})

\* what the caller does when ensureReferenceDataLoaded has returned, up to
\* its next request or its return
AfterEnsure(call, rd, siteCache, personCache) ==
    CASE call.kind = "fetchPersons" ->
            IF Len(siteCache) = 0
            THEN [call |-> [call EXCEPT !.pc = "fp_locations"], personCache |-> personCache]
            ELSE FinishFetchPersons(call, siteCache, rd, personCache)
      [] call.kind = "fetchSiteDetail" ->
            [call |-> [call EXCEPT !.pc = "sd_events"], personCache |-> personCache]
      [] call.kind = "fetchPersonDetail" ->
            [call |-> Done(call, PersonDetailOf(call, rd)), personCache |-> personCache]
      [] OTHER -> [call |-> Done(call, Undefined), personCache |-> personCache]

\* the caller reaches `await ensureReferenceDataLoaded()`: either the guard of
\* line 160 returns at once and the caller goes on, or the load starts
CallEnsure(c, call) ==
    IF EnsureSkips(refData)
    THEN \E next \in {AfterEnsure([call EXCEPT !.ensRet =
                                        IF refData.isLoaded THEN "loaded" ELSE "notLoaded"],
                                    refData, globalSiteCache, globalPersonCache)} :
            /\ calls' = [calls EXCEPT ![c] = next.call]
            /\ globalPersonCache' = next.personCache
            /\ UNCHANGED refData
    ELSE /\ refData' = [refData EXCEPT !.isLoading = TRUE]
         /\ calls' = [calls EXCEPT ![c] = [call EXCEPT !.pc = "loading"]]
         /\ UNCHANGED globalPersonCache

Invoked(kind, pc, id) == [IdleCall EXCEPT !.kind = kind, !.pc = pc, !.id = id]

(***************************************************************************)
(* The session: the exported operations invoked in any order, each         *)
(* resumed when the request it awaits has settled.                         *)
(***************************************************************************)
Idle(c) == calls[c].pc = "idle"

\* a direct call of ensureReferenceDataLoaded
InvokeEnsure(c) ==
    /\ Idle(c)
    /\ CallEnsure(c, Invoked("ensure", "idle", Null))
    /\ UNCHANGED <<globalSiteCache, detailCache, raceVars, pureVars>>

\* lines 165-193: the five requests have settled; the store is filled and the
\* caller goes on
LoadComplete(c) ==
    /\ calls[c].pc = "loading"
    /\ \E mediaRes \in {o.val : o \in FetchOutcomes("/media", Null)},
          eventMediaRes \in {o.val : o \in FetchOutcomes("/event_media", Null)},
          personEventRes \in {o.val : o \in FetchOutcomes("/person_event", Null)},
          personsRes \in {o.val : o \in FetchOutcomes("/persons", Null)},
          eventsRes \in {o.val : o \in FetchOutcomes("/event", Null)} :
            \E rd \in {LoadedStore(mediaRes, eventMediaRes, personEventRes,
                                    personsRes, eventsRes)} :
                \E next \in {AfterEnsure([calls[c] EXCEPT !.ensRet = "loaded"], rd,
                                          globalSiteCache, globalPersonCache)} :
                    /\ refData' = rd
                    /\ calls' = [calls EXCEPT ![c] = next.call]
                    /\ globalPersonCache' = next.personCache
    /\ UNCHANGED <<globalSiteCache, detailCache, raceVars, pureVars>>

\* fetchSites, lines 358-364
InvokeFetchSites(c) ==
    /\ Idle(c)
    /\ calls' = [calls EXCEPT ![c] = Invoked("fetchSites", "fs_fetch", Null)]
    /\ UNCHANGED <<refData, globalSiteCache, globalPersonCache, detailCache, raceVars, pureVars>>

\* fetchSites, lines 366-388
SitesFetched(c) ==
    /\ calls[c].pc = "fs_fetch"
    /\ \E sitesOut \in FetchOutcomes("/locations", Null),
          citiesOut \in FetchOutcomes("/cities", Null) :
            \E mappedSites \in {MappedSites(sitesOut.val, citiesOut.val)} :
                /\ globalSiteCache' = SiteCacheAfter(globalSiteCache, mappedSites)
                /\ calls' = [calls EXCEPT ![c] =
                        [Done(calls[c], Arr(mappedSites)) EXCEPT
                            !.res = <<sitesOut.val, citiesOut.val>>,
                            !.allFailed = sitesOut.failed /\ citiesOut.failed]]
    /\ UNCHANGED <<refData, globalPersonCache, detailCache, raceVars, pureVars>>

\* fetchPersons, lines 395-398
InvokeFetchPersons(c) ==
    /\ Idle(c)
    /\ CallEnsure(c, Invoked("fetchPersons", "idle", Null))
    /\ UNCHANGED <<globalSiteCache, detailCache, raceVars, pureVars>>

\* fetchPersons, lines 403-525, when the site cache was empty
PersonsSitesFetched(c) ==
    /\ calls[c].pc = "fp_locations"
    /\ \E sitesOut \in FetchOutcomes("/locations", Null) :
            \E sites \in {UnfilteredSites(sitesOut.val)} :
                \E next \in {FinishFetchPersons(calls[c], sites, refData,
                                                 globalPersonCache)} :
                    /\ calls' = [calls EXCEPT ![c] = next.call]
                    /\ globalPersonCache' = next.personCache
    /\ UNCHANGED <<refData, globalSiteCache, detailCache, raceVars, pureVars>>

\* fetchSiteDetail, lines 528-534
InvokeFetchSiteDetail(c) ==
    /\ Idle(c)
    /\ \E id \in DetailIds :
            calls' = [calls EXCEPT ![c] = Invoked("fetchSiteDetail", "sd_site", id)]
    /\ UNCHANGED <<refData, globalSiteCache, globalPersonCache, detailCache, raceVars, pureVars>>

\* fetchSiteDetail, lines 535-551
SiteFetched(c) ==
    /\ calls[c].pc = "sd_site"
    /\ \E out \in FetchOutcomes("/locations/id", calls[c].id) :
            \E data \in {extractData(out.val)} :
                \E siteInfo \in {SiteInfoOf(data, globalSiteCache, calls[c].id)} :
                    IF ~Truthy(siteInfo)
                    THEN /\ calls' = [calls EXCEPT ![c] = Done(calls[c], Null)]
                         /\ UNCHANGED <<refData, globalPersonCache>>
                    ELSE CallEnsure(c, [calls[c] EXCEPT
                                !.rawSite = IF Len(data) > 0 THEN data[1] ELSE Null,
                                !.siteInfo = siteInfo])
    /\ UNCHANGED <<globalSiteCache, detailCache, raceVars, pureVars>>

\* fetchSiteDetail, lines 557-590
EventsFetched(c) ==
    /\ calls[c].pc = "sd_events"
    /\ \E out \in FetchOutcomes("/event/location/id", calls[c].id) :
            calls' = [calls EXCEPT ![c] =
                        Done(calls[c], SiteDetailOf(calls[c], out.val, refData))]
    /\ UNCHANGED <<refData, globalSiteCache, globalPersonCache, detailCache, raceVars, pureVars>>

\* fetchPersonDetail, lines 597-602
InvokeFetchPersonDetail(c) ==
    /\ Idle(c)
    /\ \E id \in DetailIds :
            calls' = [calls EXCEPT ![c] = Invoked("fetchPersonDetail", "pd_person", id)]
    /\ UNCHANGED <<refData, globalSiteCache, globalPersonCache, detailCache, raceVars, pureVars>>

\* fetchPersonDetail, lines 603-617
PersonFetched(c) ==
    /\ calls[c].pc = "pd_person"
    /\ \E out \in FetchOutcomes("/persons/id", calls[c].id) :
            \E data \in {extractData(out.val)} :
                \E personInfo \in {IF Len(data) > 0 THEN mapPerson(data[1])
                                    ELSE OrElse(PersonById(globalPersonCache, calls[c].id),
                                                Null)} :
                    IF ~Truthy(personInfo)
                    THEN /\ calls' = [calls EXCEPT ![c] = Done(calls[c], Null)]
                         /\ UNCHANGED <<refData, globalPersonCache>>
                    ELSE CallEnsure(c, [calls[c] EXCEPT
                                !.rawPerson = IF Len(data) > 0 THEN data[1] ELSE Null,
                                !.personInfo = personInfo])
    /\ UNCHANGED <<globalSiteCache, detailCache, raceVars, pureVars>>

\* the caller has taken the result
Recycle(c) ==
    /\ calls[c].pc = "done"
    /\ calls' = [calls EXCEPT ![c] = IdleCall]
    /\ UNCHANGED <<refData, globalSiteCache, globalPersonCache, detailCache, raceVars, pureVars>>

Init == StoreOff /\ RaceOff /\ PureOff

Next ==
    \E c \in CallIds :
        \/ InvokeEnsure(c)
        \/ LoadComplete(c)
        \/ InvokeFetchSites(c)
        \/ SitesFetched(c)
        \/ InvokeFetchPersons(c)
        \/ PersonsSitesFetched(c)
        \/ InvokeFetchSiteDetail(c)
        \/ SiteFetched(c)
        \/ EventsFetched(c)
        \/ InvokeFetchPersonDetail(c)
        \/ PersonFetched(c)
        \/ Recycle(c)

Spec == Init /\ [][Next]_vars

\* the calls whose load of the five collections is in flight
Loading == {c \in CallIds : calls[c].pc = "loading"}

\* the five collections of the store
Collections ==
    <<refData.mediaMap, refData.personMap, refData.eventMediaRelations,
      refData.personEventRelations, refData.eventsCache>>

\* C1: whenever a call of ensureReferenceDataLoaded has returned, the store
\* was loaded at that moment. The code does not keep this: a call made while
\* another call's load is in flight returns at once, the store still empty.
EnsureReturnsLoaded == \A c \in CallIds : calls[c].ensRet # "notLoaded"

AtMostOneLoading ==
    /\ Cardinality(Loading) <= 1
    /\ refData.isLoading <=> Loading # {}
    /\ refData.isLoaded => Loading = {}

LoadStartsOnlyOnEmptyIdleStore ==
    (\E c \in CallIds : calls'[c].pc = "loading" /\ calls[c].pc # "loading")
        => ~refData.isLoaded /\ ~refData.isLoading

\* C2: at most one load is in flight at any time, a load is started only
\* while the store is neither loaded nor loading, and a loaded store stays
\* loaded, so that no load follows one that has completed.
SingleLoad ==
    /\ []AtMostOneLoading
    /\ [][LoadStartsOnlyOnEmptyIdleStore /\ (refData.isLoaded => refData'.isLoaded)]_vars

\* C2 witness: one call's load is in flight, and another call has reached
\* ensureReferenceDataLoaded meanwhile without starting a second load
SingleLoadWitness ==
    \E c, d \in CallIds :
        /\ calls[c].pc = "loading"
        /\ calls[d].pc = "done"
        /\ calls[d].ensRet = "notLoaded"

\* C3: once the store is loaded, no step of any operation changes one of
\* its five collections.
LoadedStoreIsFrozen == [][refData.isLoaded => Collections' = Collections]_vars

\* C3 witness: on a loaded, populated store, fetchSiteDetail has hydrated
\* the events of a site from the store's collections
LoadedStoreWitness ==
    /\ refData.isLoaded
    /\ refData.eventsCache # <<>>
    /\ refData.mediaMap # <<>>
    /\ \E c \in CallIds :
        /\ calls[c].kind = "fetchSiteDetail"
        /\ calls[c].pc = "done"
        /\ calls[c].ensRet = "loaded"
        /\ IsObj(calls[c].ret)
        /\ IsArr(Get(calls[c].ret, "events"))
        /\ Get(calls[c].ret, "events").v # <<>>

\* C5: when every attempt of both requests of fetchSites has rejected, each
\* fetchFromApi has resolved to the empty list and fetchSites returns the
\* empty list.
AllRejectedGivesEmpty ==
    \A c \in CallIds :
        calls[c].kind = "fetchSites" /\ calls[c].pc = "done" /\ calls[c].allFailed
            => /\ calls[c].res = <<Arr(<<>>), Arr(<<>>)>>
               /\ calls[c].ret = Arr(<<>>)

\* C5 witness: a call of fetchSites has returned after the direct attempt
\* and the three proxies of both its requests rejected
AllRejectedWitness ==
    \E c \in CallIds :
        calls[c].kind = "fetchSites" /\ calls[c].pc = "done" /\ calls[c].allFailed

\* C19: whenever a call of fetchPersons runs the resolver and returns, the
\* load of the store has completed. The code does not keep this: when
\* another call's load is in flight, ensureReferenceDataLoaded returns at
\* once and fetchPersons resolves over the person map that is still empty.
ResolverRunsOnLoadedStore ==
    [][\A c \in CallIds :
            (calls'[c].kind = "fetchPersons" /\ calls'[c].pc = "done" /\ calls[c].pc # "done")
                => refData'.isLoaded]_vars

(***************************************************************************)
(* The text normalizer applied to every text of a bounded alphabet.        *)
(***************************************************************************)
TextAlphabet == {"[", "]", "1", " ", "a"}

RECURSIVE TextsOfLen(_)
TextsOfLen(n) ==
    IF n = 0 THEN {<<>>}
    ELSE {Append(s, c) : s \in TextsOfLen(n - 1), c \in TextAlphabet}

Texts == UNION {TextsOfLen(n) : n \in 0..MaxTextLen}

InitCleanText ==
    /\ RaceOff
    /\ StoreOff
    /\ fnArg \in {Str(s) : s \in Texts}
    /\ fnRet = Undefined
    /\ fnPc = "ready"

\* first call: cleanText(t); second call: cleanText of the first result
CallCleanText ==
    /\ UNCHANGED <<raceVars, storeVars>>
    /\ fnPc = "ready"
    /\ fnRet' = Str(cleanText(fnArg))
    /\ fnPc' = "once"
    /\ UNCHANGED fnArg

CallCleanTextAgain ==
    /\ UNCHANGED <<raceVars, storeVars>>
    /\ fnPc = "once"
    /\ fnArg' = fnRet
    /\ fnRet' = Str(cleanText(fnRet))
    /\ fnPc' = "twice"

NextCleanText == CallCleanText \/ CallCleanTextAgain

SpecCleanText == InitCleanText /\ [][NextCleanText]_vars

\* C10: cleanText(cleanText(t)) = cleanText(t) for every text t
CleanTextIdempotent == fnPc = "twice" => fnRet = fnArg

(***************************************************************************)
(* The field resolver applied to every record and candidate list of a      *)
(* bounded domain.                                                         *)
(***************************************************************************)
PropKeys == {"site_name", "name", "id"}

\* a property is absent ("none") or holds one of these values
PropValues == {Undefined, Null, EmptyStr, Str(<<"A">>), Str(<<"B">>), Num(0)}

ObjectsOver(ks, vals) ==
    UNION {{Obj(f) : f \in [K -> vals]} : K \in SUBSET ks}

RECURSIVE KeyListsOfLen(_)
KeyListsOfLen(n) ==
    IF n = 0 THEN {<<>>}
    ELSE {Append(s, k) : s \in KeyListsOfLen(n - 1), k \in PropKeys}

KeyLists == UNION {KeyListsOfLen(n) : n \in 0..MaxKeys}

InitGetProp ==
    /\ RaceOff
    /\ StoreOff
    /\ fnArg \in [obj : ObjectsOver(PropKeys, PropValues) \cup {Null, Undefined},
                  keys : KeyLists]
    /\ fnRet = Undefined
    /\ fnPc = "ready"

CallGetProp ==
    /\ UNCHANGED <<raceVars, storeVars>>
    /\ fnPc = "ready"
    /\ fnRet' = getProp(fnArg.obj, fnArg.keys)
    /\ fnPc' = "done"
    /\ UNCHANGED fnArg

NextGetProp == CallGetProp

SpecGetProp == InitGetProp /\ [][NextGetProp]_vars

\* a candidate qualifies when its value is not null, not undefined and not ''
Qualifies(obj, key) ==
    /\ IsObj(obj)
    /\ key \in DOMAIN obj.v
    /\ obj.v[key].t \notin {"null", "undefined"}
    /\ ~(obj.v[key].t = "string" /\ Len(obj.v[key].v) = 0)

\* C9: getProp returns the value of the first candidate, in list order, whose
\* value is not null, not undefined and not the empty string, and undefined
\* when no candidate qualifies or the record is missing
GetPropFirstPresent ==
    fnPc = "done" =>
        LET o == fnArg.obj
            ks == fnArg.keys
            good == {i \in 1..Len(ks) : Qualifies(o, ks[i])}
        IN  IF good = {} THEN fnRet = Undefined
            ELSE \E i \in good :
                    /\ \A j \in good : i <= j
                    /\ fnRet = o.v[ks[i]]

\* C9 witness: a later candidate is returned because the earlier one is empty
GetPropWitness ==
    /\ fnPc = "done"
    /\ fnArg.obj = Obj([site_name |-> EmptyStr, name |-> Str(<<"A">>)])
    /\ fnArg.keys = <<"site_name", "name">>
    /\ fnRet = Str(<<"A">>)

(***************************************************************************)
(* The response unwrapper applied to every response of a bounded domain.   *)
(***************************************************************************)
Records == {Obj([id |-> Num(1)]), Obj([id |-> Num(2)]), EmptyObj}

RECURSIVE ListsOfLen(_)
ListsOfLen(n) ==
    IF n = 0 THEN {<<>>}
    ELSE {Append(s, r) : s \in ListsOfLen(n - 1), r \in Records}

Lists == UNION {ListsOfLen(n) : n \in 0..MaxListLen}

\* texts that JSON.parse rejects: the proper prefixes of a list's JSON text,
\* and that text followed by one more character
SampleText == JsonStringify(Arr(<<Obj([id |-> Num(1)]), EmptyObj>>))

BrokenTexts ==
    {b \in {SubSeq(SampleText, 1, n) : n \in 1..(Len(SampleText) - 1)}
            \cup {SampleText \o <<c>> : c \in {"]", ",", "1", "x"}}
            \cup {<<"x">>, <<"0", "1">>, <<"[", "1", ",", "]">>} :
        ~JsonParse(b).ok}

\* what a property of a response object may hold
EnvelopeValues ==
    {Undefined, Null, EmptyStr, Num(0), Num(7), Str(<<"x">>), EmptyObj,
     Str(JsonStringify(Obj([id |-> Num(1)]))), Str(JsonStringify(Num(7))),
     Obj([contents |-> Str(JsonStringify(Arr(<<Obj([id |-> Num(2)])>>)))])}
    \cup {Arr(L) : L \in Lists}
    \cup {Str(JsonStringify(Arr(L))) : L \in Lists}
    \cup {Str(b) : b \in BrokenTexts}

Responses ==
    {Undefined, Null, EmptyStr, Str(<<"x">>), Num(0), Num(7)}
    \cup {Arr(L) : L \in Lists}
    \cup ObjectsOver({"data", "contents"}, EnvelopeValues)
    \cup {Obj([id |-> Num(1), contents |-> c]) : c \in EnvelopeValues}
    \cup {Obj([site_id |-> Num(1), data |-> d]) : d \in EnvelopeValues}
    \cup Records

InitExtractData ==
    /\ RaceOff
    /\ StoreOff
    /\ fnArg \in Responses
    /\ fnRet = Undefined
    /\ fnPc = "ready"

CallExtractData ==
    /\ UNCHANGED <<raceVars, storeVars>>
    /\ fnPc = "ready"
    /\ fnRet' = Arr(extractData(fnArg))
    /\ fnPc' = "done"
    /\ UNCHANGED fnArg

NextExtractData == CallExtractData

SpecExtractData == InitExtractData /\ [][NextExtractData]_vars

\* the three envelopes of a list, and the responses that yield nothing
UnwrapsLists ==
    /\ \A L \in Lists :
        /\ fnArg = Obj([data |-> Arr(L)]) => fnRet = Arr(L)
        /\ fnArg = Arr(L) => fnRet = Arr(L)
        /\ fnArg = Obj([contents |-> Str(JsonStringify(Arr(L)))]) => fnRet = Arr(L)
    /\ fnArg \in {Null, Undefined, EmptyObj} => fnRet = Arr(<<>>)
    /\ fnArg.t \in {"string", "number"} => fnRet = Arr(<<>>)
    /\ \A b \in BrokenTexts : fnArg = Obj([contents |-> Str(b)]) => fnRet = Arr(<<>>)

\* the envelopes the claim names itself: an object with a data list, and an
\* object that holds nothing but contents
IsNamedEnvelope(x) ==
    /\ IsObj(x)
    /\ \/ "data" \in DOMAIN x.v /\ IsArr(x.v["data"])
       \/ DOMAIN x.v = {"contents"}

\* C8 as stated: the three envelopes of a list L yield L, every other
\* non-array object with at least one key yields the one-element list holding
\* it, and null, undefined, {}, non-objects and broken contents yield []
ExtractDataAsClaimed ==
    fnPc = "done" =>
        /\ UnwrapsLists
        /\ (IsObj(fnArg) /\ DOMAIN fnArg.v # {} /\ ~IsNamedEnvelope(fnArg))
                => fnRet = Arr(<<fnArg>>)

\* C8 amended: a non-array object with at least one key yields the one-element
\* list holding it when its data property is not an array and its contents
\* property is absent, null, '' or 0
ExtractDataAmended ==
    fnPc = "done" =>
        /\ UnwrapsLists
        /\ (/\ IsObj(fnArg) /\ DOMAIN fnArg.v # {}
            /\ ("data" \in DOMAIN fnArg.v => fnArg.v["data"].t # "array")
            /\ ("contents" \in DOMAIN fnArg.v =>
                    \/ fnArg.v["contents"].t \in {"undefined", "null"}
                    \/ fnArg.v["contents"] \in {EmptyStr, Num(0)}))
                => fnRet = Arr(<<fnArg>>)

\* C8 witness: a proxy envelope whose contents is the JSON text of a
\* two-record list has been unwrapped to that list
ExtractDataWitness ==
    /\ fnPc = "done"
    /\ fnArg = Obj([contents |->
                Str(JsonStringify(Arr(<<Obj([id |-> Num(1)]), Obj([id |-> Num(2)])>>)))])
    /\ fnRet = Arr(<<Obj([id |-> Num(1)]), Obj([id |-> Num(2)])>>)

(***************************************************************************)
(* fetchSites applied to every pair of responses of a bounded domain.      *)
(***************************************************************************)
\* a record of the backend: a property without a value is not sent
Record(f) == Obj([k \in {key \in DOMAIN f : f[key] # Undefined} |-> f[k]])

LatitudeValues == {Undefined, Str(<<"1", "6">>), Str(<<"x">>), Num(0)}
LongitudeValues == {Undefined, Num(107), Num(0)}

\* rows of /locations: a monument, and a site that is itself a city
LocationRecords ==
    {Record([site_id |-> kind.id, site_name |-> Str(<<"X">>), site_type |-> kind.type,
             latitude |-> lat, longitude |-> lng]) :
        kind \in {[id |-> Num(1), type |-> Undefined],
                  [id |-> Num(10), type |-> Str(ThanhPho)]},
        lat \in LatitudeValues, lng \in LongitudeValues}

\* rows of /cities: the identifier as a number or as its text
CityRecords ==
    {Record([city_id |-> id, city_name |-> Str(<<"C">>), lat |-> coord, lng |-> coord]) :
        id \in {Num(10), Str(<<"1", "0">>), Num(11)}, coord \in {Undefined, Num(16)}}

RECURSIVE RecordListsOfLen(_, _)
RecordListsOfLen(R, n) ==
    IF n = 0 THEN {<<>>}
    ELSE {Append(s, r) : s \in RecordListsOfLen(R, n - 1), r \in R}

RecordLists(R) == UNION {RecordListsOfLen(R, n) : n \in 0..MaxListLen}

InitFetchSites ==
    /\ RaceOff
    /\ StoreOff
    /\ fnArg \in [sitesRes : {Arr(L) : L \in RecordLists(LocationRecords)},
                  citiesRes : {Arr(L) : L \in RecordLists(CityRecords)}]
    /\ fnRet = Undefined
    /\ fnPc = "ready"

\* fetchSites, lines 366-388, once Promise.all has resolved to fnArg; mapped
\* keeps the value of `site` in each round of the loop of lines 370-373
FetchSitesResolves ==
    /\ fnPc = "ready"
    /\ \E mappedSites \in {MappedSites(fnArg.sitesRes, fnArg.citiesRes)} :
            /\ globalSiteCache' = SiteCacheAfter(globalSiteCache, mappedSites)
            /\ fnRet' = [mapped |-> UnfilteredSites(fnArg.sitesRes),
                         ret |-> Arr(mappedSites)]
    /\ fnPc' = "done"
    /\ UNCHANGED <<fnArg, refData, globalPersonCache, calls, detailCache, raceVars>>

NextFetchSites == FetchSitesResolves

SpecFetchSites == InitFetchSites /\ [][NextFetchSites]_vars

AtOrigin(site) == Get(site, "latitude") = Num(0) /\ Get(site, "longitude") = Num(0)

NoZeroCoordinate(site) == Get(site, "latitude") # Num(0) /\ Get(site, "longitude") # Num(0)

NotAtOrigin(site) == ~AtOrigin(site)

\* C11: a row whose latitude or longitude is missing or is not a number maps
\* to the number 0 for that coordinate, and no Site that fetchSites returns
\* or leaves in the site cache is at (0,0).
SitesNeverAtOrigin ==
    fnPc = "done" =>
        /\ \A i \in 1..Len(fnArg.sitesRes.v) :
            /\ Get(fnRet.mapped[i], "latitude").t = "number"
            /\ Get(fnRet.mapped[i], "longitude").t = "number"
            /\ Get(fnArg.sitesRes.v[i], "latitude") \in {Undefined, Str(<<"x">>)}
                    => Get(fnRet.mapped[i], "latitude") = Num(0)
            /\ Get(fnArg.sitesRes.v[i], "longitude") = Undefined
                    => Get(fnRet.mapped[i], "longitude") = Num(0)
        /\ \A i \in 1..Len(fnRet.ret.v) : ~AtOrigin(fnRet.ret.v[i])
        /\ globalSiteCache = fnRet.ret.v

\* C11 witness: a row without coordinates was mapped to (0,0) and left out,
\* while the row after it was returned
SitesOriginWitness ==
    /\ fnPc = "done"
    /\ Len(fnArg.sitesRes.v) = 2
    /\ DOMAIN fnArg.sitesRes.v[1].v \cap {"latitude", "longitude"} = {}
    /\ AtOrigin(fnRet.mapped[1])
    /\ fnArg.citiesRes.v = <<>>
    /\ fnRet.ret.v = <<fnRet.mapped[2]>>
    /\ globalSiteCache = <<fnRet.mapped[2]>>

\* the location Sites returned are the mapped rows that satisfy Keep, in
\* order, and what follows them comes from /cities
ReturnsLocations(Keep(_)) ==
    /\ Len(SelectSeq(fnRet.mapped, Keep)) <= Len(fnRet.ret.v)
    /\ SubSeq(fnRet.ret.v, 1, Len(SelectSeq(fnRet.mapped, Keep)))
            = SelectSeq(fnRet.mapped, Keep)
    /\ Len(fnRet.ret.v) - Len(SelectSeq(fnRet.mapped, Keep)) <= Len(fnArg.citiesRes.v)
    /\ \A i \in (Len(SelectSeq(fnRet.mapped, Keep)) + 1)..Len(fnRet.ret.v) :
            Get(fnRet.ret.v[i], "site_name") = Str(<<"C">>)

\* C12 as stated: the location Sites returned are the rows of /locations
\* whose mapped coordinates differ from (0,0)
KeepsAllButOrigin == fnPc = "done" => ReturnsLocations(NotAtOrigin)

\* C12 amended: the location Sites returned are the rows of /locations
\* neither of whose mapped coordinates is 0
KeepsNonZeroCoordinates == fnPc = "done" => ReturnsLocations(NoZeroCoordinate)

\* C12 witness: of a row with valid coordinates and a row at (0,0), exactly
\* the first is returned
KeepsWitness ==
    /\ fnPc = "done"
    /\ Len(fnArg.sitesRes.v) = 2
    /\ fnArg.citiesRes.v = <<>>
    /\ NoZeroCoordinate(fnRet.mapped[1])
    /\ AtOrigin(fnRet.mapped[2])
    /\ fnRet.ret.v = <<fnRet.mapped[1]>>

\* the city Sites of a list that carry the identifier whose text is idText
CitiesWithId(sites, idText) ==
    {i \in 1..Len(sites) : /\ Get(sites[i], "site_type") = Str(ThanhPho)
                           /\ ToStr(Get(sites[i], "site_id")) = idText}

\* C13: a city of /cities is not added when a city with the same identifier,
\* compared as text, is already among the mapped sites: for each identifier
\* the result holds one city at most, or as many as /locations itself held.
CitiesMergedOnce ==
    fnPc = "done" =>
        /\ \A idText \in {<<"1", "0">>, <<"1", "1">>} :
            \/ Cardinality(CitiesWithId(fnRet.ret.v, idText)) <= 1
            \/ Cardinality(CitiesWithId(fnRet.ret.v, idText))
                    = Cardinality(CitiesWithId(SelectSeq(fnRet.mapped, NoZeroCoordinate),
                                               idText))
        /\ globalSiteCache = fnRet.ret.v

\* C13 witness: /cities names city 10 twice, once by number and once by
\* text, and the result holds it once
CitiesMergedWitness ==
    /\ fnPc = "done"
    /\ fnArg.sitesRes.v = <<>>
    /\ Len(fnArg.citiesRes.v) = 2
    /\ Get(fnArg.citiesRes.v[1], "city_id") = Num(10)
    /\ Get(fnArg.citiesRes.v[2], "city_id") = Str(<<"1", "0">>)
    /\ Get(fnArg.citiesRes.v[2], "lat") = Num(16)
    /\ Len(fnRet.ret.v) = 1
    /\ Get(fnRet.ret.v[1], "site_id") = Num(10)

(***************************************************************************)
(* fetchPersons on a loaded store and a populated site cache: the person   *)
(* location resolver applied to every site list and person text of a       *)
(* bounded domain.                                                         *)
(***************************************************************************)
ThuaThienHue ==
    <<"T", "h", "ừ", "a", " ", "T", "h", "i", "ê", "n", " ", "H", "u", "ế">>
HUe == <<"H", "U", "ế">>
Ha == <<"H", "à">>
HoiAn == <<"H", "ộ", "i", " ", "A", "n">>
SinhTaiHue == <<"S", "i", "n", "h", " ", "t", "ạ", "i", " ", "H", "u", "ế">>

SiteNames == <<Hue, HUe, ThuaThienHue, Ha, HoiAn>>

\* the Site that fetchSites has cached for the n-th name
NamedSite(n) ==
    mapSite(Obj([site_id |-> Num(n), site_name |-> Str(SiteNames[n]),
                 latitude |-> Num(10 + n), longitude |-> Num(100 + n),
                 city_id |-> Num(10 + n)]))

RECURSIVE SiteListsOfLen(_)
SiteListsOfLen(n) ==
    IF n = 0 THEN {<<>>}
    ELSE {Append(s, NamedSite(k)) : s \in SiteListsOfLen(n - 1), k \in 1..Len(SiteNames)}

SiteLists == UNION {SiteListsOfLen(n) : n \in 1..MaxSites}

PersonTexts ==
    {Record([person_id |-> Num(1), person_key |-> Str(<<"p", "1">>),
             full_name |-> Str(<<"A">>), hometown |-> hometown, biography |-> bio]) :
        hometown \in {Undefined, Str(ThuaThienHue), Str(<<"h", "u", "ế">>), Str(Ha)},
        bio \in {Undefined, Str(SinhTaiHue)}}

\* the store after a load that found these rows
StoreOf(persons, events, personEvents) ==
    [mediaMap |-> <<>>,
     eventMediaRelations |-> <<>>,
     personEventRelations |-> personEvents,
     eventsCache |-> events,
     personMap |-> KeyedBy(persons, <<"person_key", "person_id">>),
     isLoaded |-> TRUE,
     isLoading |-> FALSE]

InitResolveText ==
    /\ RaceOff
    /\ calls = [c \in CallIds |-> IdleCall]
    /\ detailCache = <<>>
    /\ globalPersonCache = <<>>
    /\ globalSiteCache \in SiteLists
    /\ refData \in {StoreOf(<<raw>>, <<>>, <<>>) : raw \in PersonTexts}
    /\ fnArg = Null
    /\ fnRet = Undefined
    /\ fnPc = "ready"

\* fetchPersons, lines 398-521: the store is loaded and the site cache is not
\* empty, so the call runs to its return without a request
FetchPersonsResolves ==
    /\ fnPc = "ready"
    /\ \E next \in {FinishFetchPersons(Invoked("fetchPersons", "idle", Null),
                                        globalSiteCache, refData, globalPersonCache)} :
            /\ globalPersonCache' = next.personCache
            /\ fnRet' = next.call.ret
    /\ fnPc' = "done"
    /\ UNCHANGED <<fnArg, refData, globalSiteCache, calls, detailCache, raceVars>>

NextResolveText == FetchPersonsResolves

SpecResolveText == InitResolveText /\ [][NextResolveText]_vars

\* the first raw person of the store
FirstRawPerson == refData.personMap[1].v

\* the sites in use whose name has three characters at least and occurs,
\* whatever the case, in the texts of the first person
MatchingSites ==
    {i \in 1..Len(globalSiteCache) :
        /\ Len(Get(globalSiteCache[i], "site_name").v) >= 3
        /\ SiteNameMatches(ToLower(Get(globalSiteCache[i], "site_name").v),
                           TextToSearch(FirstRawPerson), BioToSearch(FirstRawPerson))}

\* C14: when site names of three characters or more match the person's
\* texts, whatever the case, the location_name resolved is a matching name
\* of the greatest length.
LongestMatchWins ==
    (fnPc = "done" /\ MatchingSites # {}) =>
        \E i \in MatchingSites :
            /\ Get(fnRet.v[1], "location_name") = Get(globalSiteCache[i], "site_name")
            /\ \A j \in MatchingSites :
                    Len(Get(globalSiteCache[j], "site_name").v)
                        <= Len(Get(globalSiteCache[i], "site_name").v)

\* C14 witness: "Huế" comes before "Thừa Thiên Huế" in the site list, both
\* occur in the hometown, and the longer one is resolved
LongestMatchWitness ==
    /\ fnPc = "done"
    /\ Len(globalSiteCache) >= 2
    /\ Get(globalSiteCache[1], "site_name") = Str(Hue)
    /\ Get(globalSiteCache[2], "site_name") = Str(ThuaThienHue)
    /\ Get(FirstRawPerson, "hometown") = Str(ThuaThienHue)
    /\ {1, 2} \subseteq MatchingSites
    /\ Get(fnRet.v[1], "location_name") = Str(ThuaThienHue)

(***************************************************************************)
(* hydrateEvents applied to every event and join table of a bounded        *)
(* domain, on the store a load of these rows leaves.                       *)
(***************************************************************************)
P1 == <<"p", "1">>

\* rows of /media, /persons: with a key, and without any
MediaKeyed == Obj([media_key |-> Num(1), media_url |-> Str(<<"u">>)])
MediaKeyless == Obj([media_url |-> Str(<<"w">>)])
PersonKeyed == Obj([person_key |-> Str(P1), person_id |-> Num(1), full_name |-> Str(<<"A">>)])
PersonKeyless == Obj([full_name |-> Str(<<"N">>)])

EventMediaRows ==
    {Record([event_key |-> ek, media_key |-> mk]) :
        ek \in {Undefined, Num(1), Num(2)}, mk \in {Undefined, Num(1), Num(7)}}

PersonEventRows ==
    {Record([event_key |-> ek, person_key |-> pk]) :
        ek \in {Undefined, Num(1)}, pk \in {Undefined, Str(P1)}}

RawEvents ==
    {Record([event_key |-> ek, event_name |-> Str(<<"E">>), main_person_key |-> mp]) :
        ek \in {Undefined, Num(1)}, mp \in {Undefined, Str(P1)}}

HydratorStores ==
    {[StoreOf(persons, <<>>, personEvents) EXCEPT
            !.mediaMap = KeyedBy(media, <<"media_key", "media_id">>),
            !.eventMediaRelations = eventMedia] :
        media \in {<<>>, <<MediaKeyed>>, <<MediaKeyed, MediaKeyless>>},
        persons \in {<<>>, <<PersonKeyed>>, <<PersonKeyed, PersonKeyless>>},
        eventMedia \in RecordLists(EventMediaRows),
        personEvents \in RecordLists(PersonEventRows)}

InitHydrate ==
    /\ RaceOff
    /\ calls = [c \in CallIds |-> IdleCall]
    /\ detailCache = <<>>
    /\ globalSiteCache = <<>>
    /\ globalPersonCache = <<>>
    /\ refData \in HydratorStores
    /\ fnArg \in {<<evt>> : evt \in RawEvents}
    /\ fnRet = Undefined
    /\ fnPc = "ready"

\* hydrateEvents(rawEvents), lines 274-330
CallHydrateEvents ==
    /\ fnPc = "ready"
    /\ fnRet' = hydrateEvents(fnArg, refData) \o <<>>
    /\ fnPc' = "done"
    /\ UNCHANGED <<fnArg, storeVars, raceVars>>

NextHydrate == CallHydrateEvents

SpecHydrate == InitHydrate /\ [][NextHydrate]_vars

\* a record names a key when one of the fields holds a value
NamesKey(rec, fields) == getProp(rec, fields) # Undefined

\* two records name the same key
SameKey(a, aFields, b, bFields) ==
    /\ NamesKey(a, aFields)
    /\ NamesKey(b, bFields)
    /\ KeyStr(getProp(a, aFields)) = KeyStr(getProp(b, bFields))

\* the media item comes from a row of the join table that names the event
\* and names a media record of the store
MediaIsJoined(item, evt) ==
    \E i \in 1..Len(refData.eventMediaRelations), j \in 1..Len(refData.mediaMap) :
        /\ SameKey(refData.eventMediaRelations[i], <<"event_key", "event_id">>,
                   evt, <<"event_key", "id">>)
        /\ SameKey(refData.eventMediaRelations[i], <<"media_key", "media_id">>,
                   refData.mediaMap[j].v, <<"media_key", "media_id">>)
        /\ item = mapMedia(refData.mediaMap[j].v)

\* the person comes from a row of the join table that names the event, or
\* from the event's main person, and names a person record of the store
PersonIsJoined(item, evt) ==
    \E j \in 1..Len(refData.personMap) :
        /\ item = mapPerson(refData.personMap[j].v)
        /\ \/ SameKey(evt, <<"main_person_key">>,
                      refData.personMap[j].v, <<"person_key", "person_id">>)
           \/ \E i \in 1..Len(refData.personEventRelations) :
                /\ SameKey(refData.personEventRelations[i], <<"event_key", "event_id">>,
                           evt, <<"event_key", "id">>)
                /\ SameKey(refData.personEventRelations[i], <<"person_key", "person_id">>,
                           refData.personMap[j].v, <<"person_key", "person_id">>)

\* C15: every media item and every person of a hydrated event comes from a
\* join row whose event key is the event's key and whose media or person key
\* is the key of a record of the store, also when key fields are absent. The
\* code does not keep this: absent keys are all read as the text "undefined",
\* under which rows, events and records that name no key are joined.
NoDanglingJoin ==
    fnPc = "done" =>
        /\ \A i \in 1..Len(Get(fnRet[1], "media").v) :
                MediaIsJoined(Get(fnRet[1], "media").v[i], fnArg[1])
        /\ \A i \in 1..Len(Get(fnRet[1], "persons").v) :
                PersonIsJoined(Get(fnRet[1], "persons").v[i], fnArg[1])

\* C18: no media item occurs twice in a hydrated event's media and no person
\* identifier twice in its persons. The code does not keep this: the media
\* keys of the join rows are not de-duplicated.
HydratedWithoutDuplicates ==
    fnPc = "done" =>
        /\ \A i, j \in 1..Len(Get(fnRet[1], "media").v) :
                i # j => Get(fnRet[1], "media").v[i] # Get(fnRet[1], "media").v[j]
        /\ \A i, j \in 1..Len(Get(fnRet[1], "persons").v) :
                i # j => Get(Get(fnRet[1], "persons").v[i], "person_id")
                            # Get(Get(fnRet[1], "persons").v[j], "person_id")

(***************************************************************************)
(* fetchPersonDetail on a loaded store, once /persons/:id has answered:    *)
(* applied to every event list and join table of a bounded domain.         *)
(***************************************************************************)
MediaSecond == Obj([media_key |-> Num(2), media_url |-> Str(<<"v">>)])

KeyedEvents ==
    {Obj([event_key |-> ek, event_name |-> Str(<<"E">>)]) : ek \in {Num(1), Num(2)}}

KeyedEventMediaRows ==
    {Obj([event_key |-> ek, media_key |-> mk]) : ek \in {Num(1), Num(2)}, mk \in {Num(1), Num(2)}}

KeyedPersonEventRows ==
    {Obj([event_key |-> ek, person_key |-> Str(P1)]) : ek \in {Num(1), Num(2)}}

PersonDetailStores ==
    {[StoreOf(<<PersonKeyed>>, events, personEvents) EXCEPT
            !.mediaMap = KeyedBy(<<MediaKeyed, MediaSecond>>, <<"media_key", "media_id">>),
            !.eventMediaRelations = eventMedia] :
        events \in RecordLists(KeyedEvents),
        eventMedia \in RecordLists(KeyedEventMediaRows),
        personEvents \in RecordLists(KeyedPersonEventRows)}

\* the call at line 617: /persons/1 has answered with the person's row
InitPersonDetail ==
    /\ RaceOff
    /\ calls = [c \in CallIds |-> IdleCall]
    /\ detailCache = <<>>
    /\ globalSiteCache = <<>>
    /\ globalPersonCache = <<>>
    /\ refData \in PersonDetailStores
    /\ fnArg = [Invoked("fetchPersonDetail", "pd_person", Num(1)) EXCEPT
                    !.rawPerson = PersonKeyed, !.personInfo = mapPerson(PersonKeyed)]
    /\ fnRet = Undefined
    /\ fnPc = "ready"

\* fetchPersonDetail, lines 617-682: the store is loaded, so the call runs
\* to its return
FetchPersonDetailReturns ==
    /\ fnPc = "ready"
    /\ fnRet' = PersonDetailOf(fnArg, refData)
    /\ fnPc' = "done"
    /\ UNCHANGED <<fnArg, storeVars, raceVars>>

NextPersonDetail == FetchPersonDetailReturns

SpecPersonDetail == InitPersonDetail /\ [][NextPersonDetail]_vars

\* events[i].media, events[i+1].media, ... one after the other
RECURSIVE MediaFrom(_, _)
MediaFrom(events, i) ==
    IF i > Len(events) THEN <<>>
    ELSE Get(events[i], "media").v \o MediaFrom(events, i + 1)

\* C16: the media of the PersonDetail is the media of its first event, then
\* of its second, and so on in the order of the events returned.
MediaInEventOrder ==
    fnPc = "done" => Get(fnRet, "media").v = MediaFrom(Get(fnRet, "events").v, 1)

\* C16 witness: two linked events with one media item each, the two items
\* distinct, give two media items in the order of the events
MediaInEventOrderWitness ==
    /\ fnPc = "done"
    /\ Len(Get(fnRet, "events").v) = 2
    /\ Len(Get(Get(fnRet, "events").v[1], "media").v) = 1
    /\ Len(Get(Get(fnRet, "events").v[2], "media").v) = 1
    /\ Get(Get(fnRet, "events").v[1], "media").v # Get(Get(fnRet, "events").v[2], "media").v
    /\ Get(fnRet, "media").v = <<Get(Get(fnRet, "events").v[1], "media").v[1],
                                 Get(Get(fnRet, "events").v[2], "media").v[1]>>

(***************************************************************************)
(* fetchPersons on a loaded store and a populated site cache: the resolver *)
(* applied to every person, event list and person-event table of a bounded *)
(* domain.                                                                 *)
(***************************************************************************)
\* the site cache: a monument of city 10, and city 10 itself unless /cities
\* gave no row for it
MonumentInHue ==
    mapSite(Obj([site_id |-> Num(1), site_name |-> Str(HoiAn), latitude |-> Num(15),
                 longitude |-> Num(108), city_id |-> Num(10)]))
CityOfHue ==
    mapSite(Obj([city_id |-> Num(10), city_name |-> Str(Hue), lat |-> Num(16),
                 lng |-> Num(107)]))

RawPersons ==
    {Record([person_key |-> pk, person_id |-> pid, full_name |-> Str(<<"A">>),
             hometown |-> hometown]) :
        pk \in {Undefined, Str(P1)}, pid \in {Undefined, Num(1)},
        hometown \in {Undefined, Str(Hue)}}

SitedEvents ==
    {Record([event_key |-> ek, main_person_key |-> mp, site_id |-> sid]) :
        ek \in {Undefined, Num(1)},
        mp \in {Undefined, Str(P1), Str(<<"p", "2">>)},
        sid \in {Undefined, Num(1), Num(9)}}

LinkRows ==
    {Record([person_key |-> pk, event_key |-> ek]) :
        pk \in {Undefined, Str(P1), Str(<<"p", "2">>)}, ek \in {Undefined, Num(1)}}

InitResolveEvents ==
    /\ RaceOff
    /\ calls = [c \in CallIds |-> IdleCall]
    /\ detailCache = <<>>
    /\ globalPersonCache = <<>>
    /\ globalSiteCache \in {<<MonumentInHue, CityOfHue>>, <<MonumentInHue>>}
    /\ refData \in {StoreOf(<<raw>>, events, personEvents) :
                        raw \in RawPersons,
                        events \in RecordLists(SitedEvents),
                        personEvents \in RecordLists(LinkRows)}
    /\ fnArg = Null
    /\ fnRet = Undefined
    /\ fnPc = "ready"

NextResolveEvents == FetchPersonsResolves

SpecResolveEvents == InitResolveEvents /\ [][NextResolveEvents]_vars

\* the event is linked to the person: its main person is the person, or a
\* row of the person-event table names both
LinkedToPerson(evt, raw) ==
    \/ SameKey(evt, <<"main_person_key">>, raw, <<"person_key", "id">>)
    \/ \E i \in 1..Len(refData.personEventRelations) :
        /\ SameKey(refData.personEventRelations[i], <<"event_key", "event_id">>,
                   evt, <<"event_key", "id">>)
        /\ \/ SameKey(refData.personEventRelations[i], <<"person_key", "person_id">>,
                      raw, <<"person_key", "id">>)
           \/ SameKey(refData.personEventRelations[i], <<"person_key", "person_id">>,
                      raw, <<"person_id", "id">>)

\* the site is the city, or belongs to it
NamesCity(site, cityText) ==
    \/ Truthy(Get(site, "city_id")) /\ ToStr(Get(site, "city_id")) = cityText
    \/ Get(site, "site_type") = Str(ThanhPho) /\ ToStr(Get(site, "site_id")) = cityText

\* an event linked to the first person names a site of that city
CityFromLinkedEvent(cityText) ==
    \E i \in 1..Len(refData.eventsCache), j \in 1..Len(globalSiteCache) :
        /\ LinkedToPerson(refData.eventsCache[i], FirstRawPerson)
        /\ NamesKey(refData.eventsCache[i], <<"site_id", "site_key", "location_id">>)
        /\ ToStr(getProp(refData.eventsCache[i], <<"site_id", "site_key", "location_id">>))
                = ToStr(Get(globalSiteCache[j], "site_id"))
        /\ NamesCity(globalSiteCache[j], cityText)

\* a site whose name occurs in the first person's texts names that city
CityFromText(cityText) ==
    \E j \in MatchingSites : NamesCity(globalSiteCache[j], cityText)

\* C20: Strategy A adds a city only from an event that is linked to the
\* person, by a person-event row or by its main person, and that names a
\* resolvable site, also when key fields are absent. The code does not keep
\* this: absent keys are all read as the text "undefined", so an event
\* without a main person is taken as linked to a person without a key.
CitiesOnlyFromLinkedEvents ==
    fnPc = "done" =>
        \A i \in 1..Len(Get(fnRet.v[1], "related_city_ids").v) :
            \/ CityFromLinkedEvent(Get(fnRet.v[1], "related_city_ids").v[i].v)
            \/ CityFromText(Get(fnRet.v[1], "related_city_ids").v[i].v)

\* the person's coordinates and location name are those of this site
PinnedAt(person, site) ==
    /\ Get(person, "latitude") = Get(site, "latitude")
    /\ Get(person, "longitude") = Get(site, "longitude")
    /\ Get(person, "location_name") = Get(site, "site_name")

\* C17: related_city_ids holds no city identifier twice, and a person with
\* coordinates has the latitude, the longitude and the location_name of one
\* site of the list in use.
RelatedCitiesDistinctAndOnePin ==
    fnPc = "done" =>
        /\ \A i, j \in 1..Len(Get(fnRet.v[1], "related_city_ids").v) :
                i # j => Get(fnRet.v[1], "related_city_ids").v[i]
                            # Get(fnRet.v[1], "related_city_ids").v[j]
        /\ (DOMAIN fnRet.v[1].v \cap {"latitude", "longitude", "location_name"} # {})
                => \E k \in 1..Len(globalSiteCache) : PinnedAt(fnRet.v[1], globalSiteCache[k])
        /\ globalPersonCache = fnRet.v

\* C17 witness: city 10 is reached through a linked event at the monument
\* and through the hometown, is listed once, and the person is pinned at the
\* city
RelatedCitiesWitness ==
    /\ fnPc = "done"
    /\ CityFromLinkedEvent(<<"1", "0">>)
    /\ CityFromText(<<"1", "0">>)
    /\ Get(fnRet.v[1], "related_city_ids").v = <<Str(<<"1", "0">>)>>
    /\ PinnedAt(fnRet.v[1], CityOfHue)

(***************************************************************************)
(* Strategy B on the site lists and person texts of SpecResolveText: every *)
(* cached site names a city of its own, so that the cities a person gets   *)
(* tell which sites contributed.                                           *)
(***************************************************************************)
\* the city a matched site stands for (lines 486-490)
CityOfSite(site) ==
    IF Get(site, "site_type") = Str(ThanhPho) THEN Str(ToStr(Get(site, "site_id")))
    ELSE Str(ToStr(Get(site, "city_id")))

\* the matching site that the scan by descending name length meets first:
\* none is longer, and of those of its length none stands before it
FirstMatching(i) ==
    /\ i \in MatchingSites
    /\ \A j \in MatchingSites :
            \/ Len(Get(globalSiteCache[j], "site_name").v)
                    < Len(Get(globalSiteCache[i], "site_name").v)
            \/ /\ Len(Get(globalSiteCache[j], "site_name").v)
                    = Len(Get(globalSiteCache[i], "site_name").v)
               /\ i <= j

\* C21: in Strategy B the first matching site of the scan by descending name
\* length is the person's location and no later match replaces it, the
\* related cities are the cities of all the matching sites, and a site whose
\* name is shorter than three characters never matches.
FirstMatchPinsAllMatchesRelate ==
    fnPc = "done" =>
        /\ \A i \in 1..Len(globalSiteCache) :
                FirstMatching(i) =>
                    /\ Get(fnRet.v[1], "latitude") = Get(globalSiteCache[i], "latitude")
                    /\ Get(fnRet.v[1], "longitude") = Get(globalSiteCache[i], "longitude")
                    /\ Get(fnRet.v[1], "location_name")
                            = Get(globalSiteCache[i], "site_name")
        /\ {Get(fnRet.v[1], "related_city_ids").v[k] :
                k \in 1..Len(Get(fnRet.v[1], "related_city_ids").v)}
                = {CityOfSite(globalSiteCache[i]) : i \in MatchingSites}
        /\ \A i \in 1..Len(globalSiteCache) :
                Len(Get(globalSiteCache[i], "site_name").v) < 3 => i \notin MatchingSites

\* C21 witness: the hometown "Hà" holds the two-letter site name "Hà", and
\* the biography "Sinh tại Huế" holds "Huế" and "HUế", which stand second and
\* third in the list: the person is at "Huế" and has the cities of both, not
\* that of "Hà"
FirstMatchWitness ==
    /\ fnPc = "done"
    /\ Len(globalSiteCache) = 3
    /\ Get(globalSiteCache[1], "site_name") = Str(Ha)
    /\ Get(globalSiteCache[2], "site_name") = Str(Hue)
    /\ Get(globalSiteCache[3], "site_name") = Str(HUe)
    /\ Get(FirstRawPerson, "hometown") = Str(Ha)
    /\ MatchingSites = {2, 3}
    /\ Get(fnRet.v[1], "location_name") = Str(Hue)
    /\ Get(fnRet.v[1], "related_city_ids").v
            = <<CityOfSite(globalSiteCache[2]), CityOfSite(globalSiteCache[3])>>

\* C22: when no site name matches the person's texts but the person has
\* related cities, the person has the latitude, the longitude and the
\* location_name of the first related city. The code does not keep this: the
\* city is looked up by site_id in the site list in use (lines 508-514), and
\* a person whose first related city is not in that list gets no coordinates.
FirstRelatedCityPins ==
    (/\ fnPc = "done"
     /\ MatchingSites = {}
     /\ Get(fnRet.v[1], "related_city_ids").v # <<>>) =>
        \E k \in 1..Len(globalSiteCache) :
            /\ ToStr(Get(globalSiteCache[k], "site_id"))
                    = Get(fnRet.v[1], "related_city_ids").v[1].v
            /\ PinnedAt(fnRet.v[1], globalSiteCache[k])

(***************************************************************************)
(* fetchPersons on stores of up to MaxListLen persons: which persons are   *)
(* returned and cached.                                                    *)
(***************************************************************************)
P2 == <<"p", "2">>

PersonRows ==
    {Record([person_key |-> Str(P1), person_id |-> Num(1), full_name |-> Str(<<"A">>),
             hometown |-> hometown]) : hometown \in {Undefined, Str(Hue), Str(HoiAn)}}
    \cup {Record([person_key |-> Str(P2), person_id |-> Num(2), full_name |-> Str(<<"B">>),
                  hometown |-> hometown]) : hometown \in {Undefined, Str(Hue), Str(HoiAn)}}

\* an event of person p1 at the monument
EventOfP1 == Obj([event_key |-> Num(1), main_person_key |-> Str(P1), site_id |-> Num(1)])

InitFetchPersons ==
    /\ RaceOff
    /\ calls = [c \in CallIds |-> IdleCall]
    /\ detailCache = <<>>
    /\ globalPersonCache = <<>>
    /\ globalSiteCache \in {<<MonumentInHue, CityOfHue>>, <<MonumentInHue>>}
    /\ refData \in {StoreOf(persons, events, <<>>) :
                        persons \in RecordLists(PersonRows),
                        events \in {<<>>, <<EventOfP1>>}}
    /\ fnArg = Null
    /\ fnRet = Undefined
    /\ fnPc = "ready"

NextFetchPersons == FetchPersonsResolves

SpecFetchPersons == InitFetchPersons /\ [][NextFetchPersons]_vars

NamedEvents ==
    {Obj([event_key |-> k, event_id |-> k, event_name |-> Str(<<n>>)]) :
        k \in {Num(1), Num(2)}, n \in {"E", "F"}}

InitHydrateLists ==
    /\ RaceOff
    /\ calls = [c \in CallIds |-> IdleCall]
    /\ detailCache = <<>>
    /\ globalSiteCache = <<>>
    /\ globalPersonCache = <<>>
    /\ refData \in {[StoreOf(<<PersonKeyed>>, <<>>, <<>>) EXCEPT
                        !.mediaMap = KeyedBy(<<MediaKeyed, MediaSecond>>,
                                             <<"media_key", "media_id">>),
                        !.eventMediaRelations = eventMedia] :
                            eventMedia \in RecordLists(KeyedEventMediaRows)}
    /\ fnArg \in RecordLists(NamedEvents)
    /\ fnRet = Undefined
    /\ fnPc = "ready"

NextHydrateLists == CallHydrateEvents

SpecHydrateLists == InitHydrateLists /\ [][NextHydrateLists]_vars

\* C24: hydrateEvents returns as many Events as it was given raw events, and
\* the i-th Event is the one built from the i-th raw event: it has that
\* event's identifier and name, and is what hydrating that event alone gives.
HydratePreservesOrder ==
    fnPc = "done" =>
        /\ Len(fnRet) = Len(fnArg)
        /\ \A i \in 1..Len(fnArg) :
            /\ Get(fnRet[i], "event_id") = Get(fnArg[i], "event_id")
            /\ Get(fnRet[i], "event_name") = Get(fnArg[i], "event_name")
            /\ <<fnRet[i]>> = hydrateEvents(<<fnArg[i]>>, refData)

\* C24 witness: event 2 is given before event 1, each has media of its own,
\* and the result holds event 2 before event 1
HydratePreservesOrderWitness ==
    /\ fnPc = "done"
    /\ Len(fnArg) = 2
    /\ Get(fnArg[1], "event_id") = Num(2)
    /\ Get(fnArg[2], "event_id") = Num(1)
    /\ Len(fnRet) = 2
    /\ Get(fnRet[1], "event_id") = Num(2)
    /\ Get(fnRet[2], "event_id") = Num(1)
    /\ Len(Get(fnRet[1], "media").v) = 1
    /\ Len(Get(fnRet[2], "media").v) = 1
    /\ Get(fnRet[1], "media") # Get(fnRet[2], "media")

(***************************************************************************)
(* fetchSiteDetail(1) on a loaded store: every answer to /locations/1 and  *)
(* /event/location/1, site cache and cached event list of a bounded domain.*)
(***************************************************************************)
S1 == <<"s", "1">>
S2 == <<"s", "2">>

\* answers to /locations/1: nothing, or the row of site 1 with or without
\* its site_key
SiteAnswers ==
    {Null, Arr(<<>>)}
    \cup {Record([site_id |-> Num(1), site_key |-> sk, site_name |-> Str(<<"A">>),
                  latitude |-> Num(16), longitude |-> Num(107)]) :
            sk \in {Undefined, Str(S1)}}

\* the Site that fetchSites has cached for site n
CachedSite(n) ==
    mapSite(Obj([site_id |-> Num(n), site_name |-> Str(<<"C">>),
                 latitude |-> Num(10 + n), longitude |-> Num(100 + n)]))

EventAnswers ==
    {Null, Arr(<<>>), Arr(<<Obj([event_id |-> Num(5), event_name |-> Str(<<"B">>)])>>)}

CachedEvents ==
    {Record([event_name |-> Str(<<"E">>), site_key |-> sk, site_id |-> sid]) :
        sk \in {Undefined, Str(S1), Str(S2)}, sid \in {Undefined, Num(1), Num(2)}}

InitSiteDetail ==
    /\ RaceOff
    /\ calls = [c \in CallIds |-> IdleCall]
    /\ detailCache = <<>>
    /\ globalSiteCache \in {<<>>, <<CachedSite(1)>>, <<CachedSite(2)>>}
    /\ globalPersonCache = <<>>
    /\ refData \in {StoreOf(<<>>, events, <<>>) : events \in RecordLists(CachedEvents)}
    /\ fnArg \in {[call |-> Invoked("fetchSiteDetail", "sd_site", Num(1)),
                   res |-> res, eventsRes |-> eventsRes] :
                        res \in SiteAnswers, eventsRes \in EventAnswers}
    /\ fnRet = Undefined
    /\ fnPc = "ready"

\* lines 534-551: /locations/1 has answered; the store is loaded, so
\* ensureReferenceDataLoaded returns at once
SiteAnswered ==
    /\ fnPc = "ready"
    /\ \E data \in {extractData(fnArg.res)} :
        \E siteInfo \in {SiteInfoOf(data, globalSiteCache, fnArg.call.id)} :
            IF ~Truthy(siteInfo)
            THEN fnRet' = Null /\ fnPc' = "done"
            ELSE /\ fnRet' = [fnArg.call EXCEPT
                                !.pc = "sd_events",
                                !.rawSite = IF Len(data) > 0 THEN data[1] ELSE Null,
                                !.siteInfo = siteInfo]
                 /\ fnPc' = "sd_events"
    /\ UNCHANGED <<fnArg, storeVars, raceVars>>

\* lines 557-590: /event/location/1 has answered
EventsAnswered ==
    /\ fnPc = "sd_events"
    /\ fnRet' = SiteDetailOf(fnRet, fnArg.eventsRes, refData)
    /\ fnPc' = "done"
    /\ UNCHANGED <<fnArg, storeVars, raceVars>>

NextSiteDetail == SiteAnswered \/ EventsAnswered

SpecSiteDetail == InitSiteDetail /\ [][NextSiteDetail]_vars

\* the cached sites with the requested id
CacheHits ==
    {i \in 1..Len(globalSiteCache) :
        ToStr(Get(globalSiteCache[i], "site_id")) = ToStr(fnArg.call.id)}

EventAtSite(evt, direct) ==
    \/ /\ Len(direct) > 0
       /\ NamesKey(evt, <<"site_key">>)
       /\ NamesKey(direct[1], <<"site_key">>)
       /\ ToStr(Get(evt, "site_key")) = ToStr(Get(direct[1], "site_key"))
    \/ /\ NamesKey(evt, <<"site_id">>)
       /\ ToStr(Get(evt, "site_id")) = ToStr(fnArg.call.id)

\* C26: the events of the detail are the hydration of the events that
\* /event/location/{id} returned when it returned one at least, and otherwise
\* of the cached events that name the site's key or the requested id.
EventsFromBackendElseCache ==
    (fnPc = "done" /\ fnRet # Null) =>
        \A fromBackend \in {extractData(fnArg.eventsRes)}, direct \in {extractData(fnArg.res)} :
            Get(fnRet, "events").v
                = hydrateEvents(IF Len(fromBackend) > 0 THEN fromBackend
                                ELSE SelectSeq(refData.eventsCache,
                                               LAMBDA evt : EventAtSite(evt, direct)),
                                refData)

\* C26 witness: /event/location/1 returned no event; of the two cached
\* events the first names another site and the second names the key of
\* site 1, and the detail holds the second only
EventsFromCacheWitness ==
    /\ fnPc = "done"
    /\ fnArg.eventsRes = Arr(<<>>)
    /\ Get(fnArg.res, "site_key") = Str(S1)
    /\ Len(refData.eventsCache) = 2
    /\ refData.eventsCache[1] = Obj([event_name |-> Str(<<"E">>), site_id |-> Num(2)])
    /\ refData.eventsCache[2] = Obj([event_name |-> Str(<<"E">>), site_key |-> Str(S1)])
    /\ fnRet # Null
    /\ Len(Get(fnRet, "events").v) = 1
    /\ Get(Get(fnRet, "events").v[1], "related_site_id") = Str(S1)

(***************************************************************************)
(* fetchPersonDetail and fetchSites in the session of Spec                 *)
(***************************************************************************)
\* C27: when /persons/{id} gives no record but the loaded store holds a
\* person with that id, fetchPersonDetail returns a detail and not null.
\* The code does not keep this: it returns null at line 614, before the
\* store is read, when the Person cache does not hold the id either.
PersonResolvedFromStore ==
    [][\A c \in CallIds :
        (/\ calls[c].kind = "fetchPersonDetail"
         /\ calls[c].pc = "pd_person"
         /\ calls'[c].pc = "done"
         /\ refData.isLoaded
         /\ RawPersonById(refData, calls[c].id) # Undefined)
            => calls'[c].ret # Null]_vars

\* C28: when a call of fetchSites completes, the Site cache is the list that
\* call returns, the empty list when every attempt of both requests failed,
\* whatever the cache held; and the Site cache changes at no other step, so
\* after overlapping calls it holds the list of the one that completed last.
SiteCacheIsLastResult ==
    [][/\ \A c \in CallIds :
            (calls[c].pc = "fs_fetch" /\ calls'[c].pc = "done") =>
                /\ globalSiteCache' = calls'[c].ret.v
                /\ calls'[c].allFailed => globalSiteCache' = <<>>
       /\ globalSiteCache' # globalSiteCache =>
            \E c \in CallIds : calls[c].pc = "fs_fetch" /\ calls'[c].pc = "done"]_vars

\* C28 witness: one call of fetchSites has returned sites, another has
\* returned [] because every attempt failed, and the cache is empty: the
\* failed call completed last and replaced the populated cache
SiteCacheEmptiedWitness ==
    /\ globalSiteCache = <<>>
    /\ \E c, d \in CallIds :
        /\ calls[c].kind = "fetchSites" /\ calls[c].pc = "done"
        /\ calls[c].ret.v # <<>>
        /\ calls[d].kind = "fetchSites" /\ calls[d].pc = "done"
        /\ calls[d].allFailed
        /\ calls[d].ret.v = <<>>

(***************************************************************************)
(* The race of fetchFromApi when an attempt is answered with 404           *)
(***************************************************************************)
\* C29: when the first attempt to fulfil is one that was answered with 404,
\* fetchFromApi resolves to null at that step, and its result stays what it
\* is when another attempt fulfils later with data.
NotFoundWinsRace ==
    [][/\ \A s \in Strategies :
            (/\ \A u \in Strategies : att[u].st # "fulfilled"
             /\ att'[s].st = "fulfilled"
             /\ att'[s].status = 404)
                => apiRet' = [done |-> TRUE, val |-> Null]
       /\ apiRet.done => apiRet' = apiRet]_vars

\* C29 witness: the call has resolved to null, one attempt got 404 and
\* another has fulfilled with the backend's list
NotFoundWinsWitness ==
    /\ apiRet = [done |-> TRUE, val |-> Null]
    /\ \E s, u \in Strategies :
        /\ att[s].st = "fulfilled" /\ att[s].status = 404
        /\ att[u].st = "fulfilled" /\ att[u].status = 200 /\ att[u].val = BackendList

(***************************************************************************)
(* SiteDetailContent (App.tsx): loadDetails and the detail cache, while    *)
(* other callers load the reference data.                                  *)
(***************************************************************************)
\* detailCache.has(siteId)
MapHas(mp, k) == \E i \in 1..Len(mp) : mp[i].k = k

\* loadDetails up to its await (App.tsx 760-773): a cached detail is shown
\* without a request, else fetchSiteDetail(siteId) is called
LoadDetails(c) ==
    /\ Idle(c)
    /\ \E siteId \in DetailIds :
        calls' = [calls EXCEPT ![c] =
                    IF MapHas(detailCache, siteId)
                    THEN Done(Invoked("loadDetails", "idle", siteId),
                              MapGet(detailCache, siteId))
                    ELSE Invoked("fetchSiteDetail", "sd_site", siteId)]
    /\ UNCHANGED <<refData, globalSiteCache, globalPersonCache, detailCache,
                   raceVars, pureVars>>

\* loadDetails after its await (App.tsx 773-792): a result that is not null
\* is stored under siteId, then shown
DetailLoaded(c) ==
    /\ calls[c].kind = "fetchSiteDetail"
    /\ calls[c].pc = "done"
    /\ detailCache' = IF Truthy(calls[c].ret)
                      THEN MapSet(detailCache, [k |-> calls[c].id, v |-> calls[c].ret])
                      ELSE detailCache
    /\ calls' = [calls EXCEPT ![c] = [calls[c] EXCEPT !.kind = "loadDetails"]]
    /\ UNCHANGED <<refData, globalSiteCache, globalPersonCache, raceVars, pureVars>>

\* the caller of an operation other than fetchSiteDetail has taken the result
ResultTaken(c) ==
    /\ calls[c].kind # "fetchSiteDetail"
    /\ Recycle(c)

\* loadDetails goes on in the microtask in which fetchSiteDetail returned:
\* nothing else runs in between
NoContinuation ==
    \A c \in CallIds : ~(calls[c].kind = "fetchSiteDetail" /\ calls[c].pc = "done")

NextApp ==
    \E c \in CallIds :
        \/ DetailLoaded(c)
        \/ NoContinuation /\ LoadDetails(c)
        \/ NoContinuation /\ SiteFetched(c)
        \/ NoContinuation /\ EventsFetched(c)
        \/ NoContinuation /\ InvokeEnsure(c)
        \/ NoContinuation /\ LoadComplete(c)
        \/ NoContinuation /\ ResultTaken(c)

SpecApp == Init /\ [][NextApp]_vars

\* the detail cache holds no null
DetailCacheHoldsDetails ==
    \A i \in 1..Len(detailCache) : Truthy(detailCache[i].v)

\* no request is made for an id the detail cache holds
DetailCacheSparesRequests ==
    [][\A c \in CallIds :
        (Idle(c) /\ calls'[c].kind = "fetchSiteDetail")
            => ~MapHas(detailCache, calls'[c].id)]_vars

\* C30: the detail cache holds no null, no request is made for an id it
\* holds, and every detail stored in it was hydrated after
\* ensureReferenceDataLoaded had returned into a loaded store. The code does
\* not keep the last part: a detail hydrated while another caller's load was
\* in flight is stored as well.
DetailCacheHydratedOnLoadedStore ==
    [][/\ \A i \in 1..Len(detailCache') : Truthy(detailCache'[i].v)
       /\ \A c \in CallIds :
            /\ (Idle(c) /\ calls'[c].kind = "fetchSiteDetail")
                    => ~MapHas(detailCache, calls'[c].id)
            /\ (/\ calls[c].kind = "fetchSiteDetail"
                /\ calls[c].pc = "done"
                /\ calls'[c].kind = "loadDetails"
                /\ Truthy(calls[c].ret))
                    => calls[c].ensRet = "loaded"]_vars
====
